---- MODULE Spec2Model ----
(***************************************************************************)
(* A model of the go-email package: the Message validation contract, the   *)
(* Client facade (NewClient, Send, SendWithContext) and the Provider       *)
(* boundary it delegates to.                                               *)
(*                                                                         *)
(* Go values are represented as follows.                                   *)
(*   string      a TLA+ string ("" is the empty string)                    *)
(*   []T         a record [isNil, elems]: a nil slice and an empty slice   *)
(*               are different values of length 0                          *)
(*   error       the chain of messages of the wrapped errors, outermost    *)
(*               first; nil is the empty chain.  fmt.Errorf("p: %w", e)    *)
(*               puts "p" in front of the chain of e, so that errors.Is    *)
(*               and errors.Unwrap can be stated on the chain              *)
(*   *T          a record with an isNil field                              *)
(***************************************************************************)
EXTENDS Integers, Sequences, FiniteSets, TLC

VARIABLES
    input,      \* the argument of the function a function specification applies
                \* (SpecValidate: the Message handed to Validate)
    output,     \* what the function returned for it
    lastNew,    \* the latest NewClient call: its Config, result and the constructors it ran
    client,     \* the Client the callers send with (its bound provider)
    calls       \* per goroutine: its Send / SendWithContext call in progress

vars == <<input, output, lastNew, client, calls>>

(***************************************************************************)
(* Bounds of the model.                                                    *)
(***************************************************************************)
\* the longest address list (To, Cc, Bcc) a Message of the model carries
MaxAddrs == 2
\* how far the time of one call is followed, in seconds
MaxElapsed == 40
\* the seconds that pass in one step of the clock
TickStep == 10

(***************************************************************************)
(* Slices and errors.                                                      *)
(***************************************************************************)
NilSlice == [isNil |-> TRUE, elems |-> <<>>]

Slice(s) == [isNil |-> FALSE, elems |-> s]

\* len(s): 0 for a nil slice and for an empty one
GoLen(s) == Len(s.elems)

SeqsUpTo(S, n) == UNION {[1..k -> S] : k \in 0..n}

\* every slice over S with at most n elements, the nil slice included
SlicesOf(S, n) == {NilSlice} \cup {Slice(s) : s \in SeqsUpTo(S, n)}

NoError == <<>>

\* fmt.Errorf(text) without a %w verb: a new error with no cause
Errorf(text) == <<text>>

\* fmt.Errorf(prefix + ": %w", err)
Wrap(prefix, err) == <<prefix>> \o err

\* errors.Is(err, target) for a target that is a plain sentinel error
ErrorsIs(err, target) == \E i \in 1..Len(err) : SubSeq(err, i, Len(err)) = target

\* the innermost error of the chain
Cause(err) == <<err[Len(err)]>>

RECURSIVE ErrorString(_)
\* err.Error(): the messages of the chain joined by ": "
ErrorString(err) ==
    IF Len(err) = 0 THEN ""
    ELSE IF Len(err) = 1 THEN err[1]
    ELSE err[1] \o ": " \o ErrorString(Tail(err))

(***************************************************************************)
(* Message and Validate (email.go).                                        *)
(***************************************************************************)
\* address strings: well-formed, malformed and empty ones
Addrs == {"b@y.com", "not-an-address", ""}

Attachment(name, content, mime) ==
    [Filename |-> name, Content |-> content, MimeType |-> mime]

AttachmentLists ==
    {NilSlice, Slice(<<Attachment("test.txt", <<116, 101>>, "text/plain")>>)}

Message(from, to, cc, bcc, subject, body, html, atts) ==
    [From |-> from, To |-> to, Cc |-> cc, Bcc |-> bcc, Subject |-> subject,
     Body |-> body, HTML |-> html, Attachments |-> atts]

\* the Messages Validate is applied to
AllMessages ==
    {Message(f, to, cc, bcc, s, b, h, a) :
        f \in {"", "a@x.com"}, to \in SlicesOf(Addrs, MaxAddrs),
        cc \in {NilSlice, Slice(<<"cc@x.com">>)},
        bcc \in {NilSlice, Slice(<<"bcc@x.com">>)},
        s \in {"", "Hi"}, b \in {"", "Hello"}, h \in BOOLEAN,
        a \in AttachmentLists}

\* Message.Validate with the order of two checks exchanged
ValidateSubjectFirst(m) ==
    IF m.Subject = "" THEN Errorf("subject is required")
    ELSE IF m.From = "" THEN Errorf("from address is required")
    ELSE IF GoLen(m.To) = 0 THEN Errorf("at least one recipient is required")
    ELSE IF m.Body = "" THEN Errorf("body is required")
    ELSE NoError

\* Message.Validate that also rejects a recipient that is the empty string
ValidateChecksAddresses(m) ==
    IF m.From = "" THEN Errorf("from address is required")
    ELSE IF GoLen(m.To) = 0 \/ \E i \in 1..GoLen(m.To) : m.To.elems[i] = ""
        THEN Errorf("at least one recipient is required")
    ELSE IF m.Subject = "" THEN Errorf("subject is required")
    ELSE IF m.Body = "" THEN Errorf("body is required")
    ELSE NoError

\* func (m *Message) Validate() error
Validate(m) ==
    IF m.From = "" THEN Errorf("from address is required")
    ELSE IF GoLen(m.To) = 0 THEN Errorf("at least one recipient is required")
    ELSE IF m.Subject = "" THEN Errorf("subject is required")
    ELSE IF m.Body = "" THEN Errorf("body is required")
    ELSE NoError

(***************************************************************************)
(* Config and NewClient (email.go), the provider constructors (gmail.go,   *)
(* outlook.go).                                                            *)
(***************************************************************************)
NilOutlook == [isNil |-> TRUE, TenantID |-> "", ClientID |-> "", ClientSecret |-> ""]

OutlookConfigs ==
    {NilOutlook,
     [isNil |-> FALSE, TenantID |-> "tenant", ClientID |-> "id", ClientSecret |-> "secret"]}

NilGmail == [isNil |-> TRUE, CredentialsJSON |-> "", TokenJSON |-> ""]

\* the byte strings of the model: JSON that parses, and text that does not
ValidCredentialsJSON == "{\"installed\":{\"client_id\":\"x\"}}"

ValidTokenJSON == "{\"access_token\":\"t\"}"

MalformedJSON == "not json"

GmailConfigs ==
    {NilGmail} \cup
    {[isNil |-> FALSE, CredentialsJSON |-> c, TokenJSON |-> t] :
        c \in {ValidCredentialsJSON, MalformedJSON},
        t \in {"", ValidTokenJSON, MalformedJSON}}

\* provider selectors: the two supported ones, an unknown one and the unset one
Selectors == {"outlook365", "gmail", "sendgrid", ""}

Configs ==
    {[Provider |-> p, Outlook |-> o, Gmail |-> g] :
        p \in Selectors, o \in OutlookConfigs, g \in GmailConfigs}

\* what the vendor SDK constructors do, which the package does not decide
SdkInit == {"ok", "fail"}

NoClient == [isNil |-> TRUE, provider |-> "none"]

ClientOf(p) == [isNil |-> FALSE, provider |-> p]

\* the result of a constructor or of NewClient: the value, the error and the
\* provider constructors that were run to get it
Built(c, err, ctors) == [client |-> c, err |-> err, ctors |-> ctors]

\* func newOutlookProvider(config *OutlookConfig) (Provider, error)
newOutlookProvider(config, cred, graph) ==
    IF cred = "fail"
        THEN Built(NoClient, Wrap("authentication error", Errorf("azidentity: invalid tenant")),
                   <<"newOutlookProvider">>)
    ELSE IF graph = "fail"
        THEN Built(NoClient, Wrap("error creating Graph client", Errorf("msgraph: no adapter")),
                   <<"newOutlookProvider">>)
    ELSE Built(ClientOf("outlook365"), NoError, <<"newOutlookProvider">>)

\* func newGmailProvider(config *GmailConfig) (Provider, error)
newGmailProvider(config, service) ==
    IF config.CredentialsJSON # ValidCredentialsJSON
        THEN Built(NoClient, Wrap("unable to parse credentials", Errorf("invalid character")),
                   <<"newGmailProvider">>)
    ELSE IF Len(config.TokenJSON) > 0 /\ config.TokenJSON # ValidTokenJSON
        THEN Built(NoClient, Wrap("invalid token", Errorf("invalid character")),
                   <<"newGmailProvider">>)
    ELSE IF Len(config.TokenJSON) = 0
        THEN Built(NoClient,
                   Errorf("gmail requires initial OAuth authentication - please use the authentication helper"),
                   <<"newGmailProvider">>)
    ELSE IF service = "fail"
        THEN Built(NoClient, Wrap("unable to create Gmail service", Errorf("gmail: no transport")),
                   <<"newGmailProvider">>)
    ELSE Built(ClientOf("gmail"), NoError, <<"newGmailProvider">>)

\* NewClient that runs the selected constructor before it looks at the
\* sub-configuration
NewClientConstructsFirst(config, cred, graph, service) ==
    LET built == CASE config.Provider = "outlook365" ->
                          newOutlookProvider(config.Outlook, cred, graph)
                   [] config.Provider = "gmail" ->
                          newGmailProvider(config.Gmail, service)
                   [] OTHER -> newOutlookProvider(config.Outlook, cred, graph)
    IN  IF built.err # NoError
            THEN Built(NoClient, Wrap("failed to create provider", built.err), built.ctors)
        ELSE Built(built.client, NoError, built.ctors)

\* func NewClient(config *Config) (*Client, error)
NewClient(config, cred, graph, service) ==
    IF config.Provider \notin {"outlook365", "gmail"}
        THEN Built(NoClient, Errorf("unsupported provider: " \o config.Provider), <<>>)
    ELSE IF config.Provider = "outlook365" /\ config.Outlook.isNil
        THEN Built(NoClient, Errorf("outlook configuration is required"), <<>>)
    ELSE IF config.Provider = "gmail" /\ config.Gmail.isNil
        THEN Built(NoClient, Errorf("gmail configuration is required"), <<>>)
    ELSE
        LET built == IF config.Provider = "outlook365"
                        THEN newOutlookProvider(config.Outlook, cred, graph)
                        ELSE newGmailProvider(config.Gmail, service)
        IN  IF built.err # NoError
                THEN Built(NoClient, Wrap("failed to create provider", built.err), built.ctors)
            ELSE Built(built.client, NoError, built.ctors)

NoNewClientCall ==
    [called |-> FALSE, config |-> [Provider |-> "", Outlook |-> NilOutlook, Gmail |-> NilGmail],
     err |-> NoError, ctors |-> <<>>]

(***************************************************************************)
(* context.Context.  A context is its identity (who made it, from which    *)
(* parent, with which deadline); whether it is done is state of the call   *)
(* that uses it (ctxErr: what ctx.Err() returns).  Times are seconds since *)
(* the call began.                                                         *)
(***************************************************************************)
\* the timeout of Send, in seconds
DefaultTimeout == 30

Canceled == Errorf("context canceled")

DeadlineExceeded == Errorf("context deadline exceeded")

Context(id, parent, hasDeadline, deadline) ==
    [id |-> id, parent |-> parent, hasDeadline |-> hasDeadline, deadline |-> deadline]

\* context.Background()
Background == Context("background", "none", FALSE, 0)

\* context.WithTimeout(parent, d), made at time now by maker
WithTimeout(maker, parent, now, d) ==
    Context(maker, parent.id, TRUE,
            IF parent.hasDeadline /\ parent.deadline < now + d
                THEN parent.deadline ELSE now + d)

\* context.WithCancel(parent), made by maker
WithCancel(maker, parent) ==
    Context(maker, parent.id, parent.hasDeadline, parent.deadline)

\* the contexts a caller hands to SendWithContext: the background context, a
\* cancellable one, and ones with a timeout that is over, shorter and longer
\* than the timeout of Send
CallerContexts ==
    {Background, WithCancel("caller", Background)} \cup
    {WithTimeout("caller", Background, 0, d) : d \in {0, 20, 60}}

\* ctx.Err() of a context at the moment it is handed over
ErrAtStart(ctx, cancelledBefore) ==
    IF ctx.hasDeadline /\ ctx.deadline <= 0 THEN DeadlineExceeded
    ELSE IF cancelledBefore /\ ctx.id # "background" THEN Canceled
    ELSE NoError

\* ctx.Err() after the clock has reached time now
ErrAtTime(ctx, ctxErr, now) ==
    IF ctxErr = NoError /\ ctx.hasDeadline /\ ctx.deadline <= now
        THEN DeadlineExceeded ELSE ctxErr

\* ctx.Err() after the context's cancel function has been called
ErrAfterCancel(ctxErr) == IF ctxErr = NoError THEN Canceled ELSE ctxErr

(***************************************************************************)
(* The providers behind the Provider interface: the two adapters and the   *)
(* mockProvider of the package's tests.  What the network call of an       *)
(* adapter answers is not decided by the package: it is an input.          *)
(***************************************************************************)
\* what the vendor SDK's send (or the mock's sendFunc) can answer while the
\* context's Err() is ctxErr: success, a failure of its own, or the context's
\* error once the context is done
Answers(ctxErr) ==
    {NoError, Errorf("provider error")} \cup
    (IF ctxErr = NoError THEN {} ELSE {ctxErr})

\* every answer there is
AllAnswers == Answers(Canceled) \cup Answers(DeadlineExceeded)

\* func (g *gmailProvider) createMessage(msg *Message) (*gmail.Message, error):
\* the error it returns
createMessageErr(msg) == NoError

\* func (o *outlookProvider) attachFiles(...) error: the error it returns
attachFilesErr(msg) == NoError

\* func (g *gmailProvider) Send(ctx context.Context, msg *Message) error
gmailSend(msg, answer) ==
    IF createMessageErr(msg) # NoError
        THEN Wrap("unable to create message", createMessageErr(msg))
    ELSE IF answer # NoError THEN Wrap("unable to send message", answer)
    ELSE NoError

\* func (o *outlookProvider) Send(ctx context.Context, msg *Message) error
outlookSend(msg, answer) ==
    IF attachFilesErr(msg) # NoError
        THEN Wrap("failed to attach files", attachFilesErr(msg))
    ELSE IF answer # NoError THEN Wrap("failed to send email", answer)
    ELSE NoError

\* func (m *mockProvider) Send(ctx context.Context, msg *Message) error
mockSend(msg, answer) == answer

\* Provider.Send of the bound provider: the error it returns
ProviderSend(kind, msg, answer) ==
    CASE kind = "gmail" -> gmailSend(msg, answer)
      [] kind = "outlook365" -> outlookSend(msg, answer)
      [] OTHER -> mockSend(msg, answer)

(***************************************************************************)
(* The Client facade: Send and SendWithContext (email.go).  A call is      *)
(* followed from its entry to its return; between the two, for a valid     *)
(* message, lies the provider's blocking network call.                     *)
(***************************************************************************)
Goroutines == {"g1", "g2"}

\* the goroutines that send in Spec
Senders == {"g1"}

NoMessage == Message("", NilSlice, NilSlice, NilSlice, "", "", FALSE, NilSlice)

\* one call of Provider.Send: the provider, the arguments it was given and
\* what ctx.Err() was at that moment
Invocation(kind, ctx, ctxErr, msg) ==
    [provider |-> kind, ctx |-> ctx, ctxErr |-> ctxErr, msg |-> msg]

IdleCall ==
    [pc |-> "idle",             \* idle, inflight (inside provider.Send), returned
     api |-> "none",            \* the method the caller called
     msg |-> NoMessage,         \* the caller's message
     given |-> Background,      \* the context the caller passed (SendWithContext)
     ctx |-> Background,        \* the context SendWithContext received
     ctxErr |-> NoError,        \* ctx.Err() now
     cancelRan |-> FALSE,       \* Send's deferred cancel() has run
     elapsed |-> 0,             \* seconds since the call began
     validated |-> 0,           \* the number of Validate calls made
     invoked |-> <<>>,          \* the provider.Send calls made, in order
     network |-> <<>>,          \* what the network call inside each of them answered
     answers |-> <<>>,          \* what each provider.Send call returned
     err |-> NoError]           \* the error the call returned

\* the Messages the callers send
SendMessages ==
    {m \in AllMessages :
        /\ m.Bcc.isNil /\ ~m.HTML /\ m.Attachments.isNil
        /\ m.To \in {NilSlice, Slice(<<>>), Slice(<<"">>), Slice(<<"b@y.com">>),
                     Slice(<<"b@y.com", "not-an-address">>)}}

\* SendWithContext that delegates without validating
SendWithContextNoValidate(c, kind, ctx, ctxErr, msg) ==
    [c EXCEPT !.msg = msg, !.ctx = ctx, !.ctxErr = ctxErr, !.pc = "inflight",
              !.invoked = Append(@, Invocation(kind, ctx, ctxErr, msg))]

\* SendWithContext that puts a timeout of its own on the caller's context
SendWithContextOwnTimeout(c, kind, ctx, ctxErr, msg) ==
    LET verr == Validate(msg)
        own == WithTimeout("client", ctx, c.elapsed, DefaultTimeout)
        d == [c EXCEPT !.msg = msg, !.ctx = own, !.ctxErr = ctxErr, !.validated = @ + 1]
    IN  IF verr # NoError
            THEN [d EXCEPT !.pc = "returned", !.err = Wrap("invalid message", verr)]
        ELSE [d EXCEPT !.pc = "inflight",
                       !.invoked = Append(@, Invocation(kind, own, ctxErr, msg))]

\* SendWithContext that answers a context that is already done by itself
SendWithContextChecksDone(c, kind, ctx, ctxErr, msg) ==
    LET verr == Validate(msg)
        d == [c EXCEPT !.msg = msg, !.ctx = ctx, !.ctxErr = ctxErr, !.validated = @ + 1]
    IN  IF verr # NoError
            THEN [d EXCEPT !.pc = "returned", !.err = Wrap("invalid message", verr)]
        ELSE IF ctxErr # NoError
            THEN [d EXCEPT !.pc = "returned", !.err = ctxErr]
        ELSE [d EXCEPT !.pc = "inflight",
                       !.invoked = Append(@, Invocation(kind, ctx, ctxErr, msg))]

\* func (c *Client) SendWithContext(ctx context.Context, msg *Message) error,
\* up to its call of c.provider.Send: the call c after it
SendWithContext(c, kind, ctx, ctxErr, msg) ==
    LET verr == Validate(msg)
        d == [c EXCEPT !.msg = msg, !.ctx = ctx, !.ctxErr = ctxErr, !.validated = @ + 1]
    IN  IF verr # NoError
            THEN [d EXCEPT !.pc = "returned", !.err = Wrap("invalid message", verr)]
        ELSE [d EXCEPT !.pc = "inflight",
                       !.invoked = Append(@, Invocation(kind, ctx, ctxErr, msg))]

\* the return of provider.Send that tries once more after an error
ProviderReturnedRetry(c, perr) ==
    IF perr # NoError /\ Len(c.invoked) < 2
        THEN [c EXCEPT !.answers = Append(@, perr),
                       !.invoked = Append(@, c.invoked[Len(c.invoked)])]
    ELSE [c EXCEPT !.pc = "returned", !.answers = Append(@, perr), !.err = perr]

\* the return of provider.Send with the facade's own annotation on the error
ProviderReturnedWraps(c, perr) ==
    [c EXCEPT !.pc = "returned", !.answers = Append(@, perr),
              !.err = IF perr = NoError THEN NoError ELSE Wrap("unable to send message", perr)]

\* SendWithContext from the return of c.provider.Send on: "return
\* c.provider.Send(ctx, msg)" hands the provider's error to the caller
ProviderReturned(c, perr) ==
    [c EXCEPT !.pc = "returned", !.answers = Append(@, perr), !.err = perr]

\* Send's context.WithTimeout(context.Background(), 30*time.Second)
SendContext(now) == WithTimeout("send", Background, now, DefaultTimeout)

\* Send without the deferred cancel
SendDeferredMissing(c) == c

\* Send's "defer cancel()": it runs once SendWithContext has returned
SendDeferred(c) ==
    IF c.api = "Send" /\ c.pc = "returned"
        THEN [c EXCEPT !.ctxErr = ErrAfterCancel(@), !.cancelRan = TRUE]
    ELSE c

\* func (c *Client) Send(msg *Message) error, up to the provider's call
Send(c, kind, msg) ==
    SendDeferred(SendWithContext([c EXCEPT !.api = "Send"], kind,
                                 SendContext(c.elapsed), NoError, msg))

(***************************************************************************)
(* The state machine.                                                      *)
(***************************************************************************)
AllIdle == \A g \in Goroutines : calls[g].pc = "idle"

\* a Client that keeps the Message of the latest call in a field of its own,
\* which every call in progress reads
WithCallSharedMessage(cs, g, c) ==
    [h \in DOMAIN cs |-> IF h = g THEN c
                         ELSE IF cs[h].pc = "idle" THEN cs[h]
                         ELSE [cs[h] EXCEPT !.msg = c.msg]]

\* the calls in progress once the call of goroutine g has become c: msg, ctx
\* and err are parameters and locals of that call, and the Client has one
\* field, the provider, which no method assigns
WithCall(cs, g, c) == [cs EXCEPT ![g] = c]

\* client, err := NewClient(config)
DoNewClient(config, cred, graph, service) ==
    /\ AllIdle
    /\ client # ClientOf("mock")
    /\ LET built == NewClient(config, cred, graph, service)
       IN  /\ lastNew' = [called |-> TRUE, config |-> config,
                          err |-> built.err, ctors |-> built.ctors]
           /\ client' = built.client
    /\ UNCHANGED <<input, output, calls>>

\* client := &Client{provider: mock}, as the package's tests do, which make
\* no NewClient call
BindMock ==
    /\ AllIdle
    /\ ~lastNew.called
    /\ client # ClientOf("mock")
    /\ client' = ClientOf("mock")
    /\ UNCHANGED <<input, output, lastNew, calls>>

\* goroutine g calls client.Send(msg)
CallSend(g, msg) ==
    /\ ~client.isNil
    /\ calls[g].pc = "idle"
    /\ calls' = WithCall(calls, g, Send(IdleCall, client.provider, msg))
    /\ UNCHANGED <<input, output, lastNew, client>>

\* goroutine g calls client.SendWithContext(ctx, msg); cancelledBefore: the
\* caller has cancelled ctx already
CallSendWithContext(g, ctx, cancelledBefore, msg) ==
    /\ ~client.isNil
    /\ calls[g].pc = "idle"
    /\ calls' = WithCall(calls, g,
                    SendWithContext([IdleCall EXCEPT !.api = "SendWithContext", !.given = ctx],
                                    client.provider, ctx, ErrAtStart(ctx, cancelledBefore), msg))
    /\ UNCHANGED <<input, output, lastNew, client>>

\* the provider.Send call of g returns, and with it SendWithContext and Send
ProviderReturn(g, answer) ==
    /\ calls[g].pc = "inflight"
    /\ answer \in Answers(calls[g].ctxErr)
    /\ LET c == calls[g]
           now == c.invoked[Len(c.invoked)]
       IN  calls' = WithCall(calls, g,
                        SendDeferred(ProviderReturned([c EXCEPT !.network = Append(@, answer)],
                                                      ProviderSend(now.provider, now.msg, answer))))
    /\ UNCHANGED <<input, output, lastNew, client>>

\* time passes while the provider.Send call of g is in flight; a deadline
\* that is reached ends the context
Tick(g) ==
    /\ calls[g].pc = "inflight"
    /\ calls[g].elapsed < MaxElapsed
    /\ calls' = [calls EXCEPT ![g].elapsed = @ + TickStep,
                              ![g].ctxErr = ErrAtTime(calls[g].ctx, @, calls[g].elapsed + TickStep)]
    /\ UNCHANGED <<input, output, lastNew, client>>

\* the caller cancels the context it passed while the call is in flight
CancelByCaller(g) ==
    /\ calls[g].pc = "inflight"
    /\ calls[g].api = "SendWithContext"
    /\ calls[g].given.id = "caller"
    /\ calls[g].ctxErr = NoError
    /\ calls' = [calls EXCEPT ![g].ctxErr = ErrAfterCancel(@)]
    /\ UNCHANGED <<input, output, lastNew, client>>

\* the caller has taken the result of its call
Finish(g) ==
    /\ calls[g].pc = "returned"
    /\ calls' = [calls EXCEPT ![g] = IdleCall]
    /\ UNCHANGED <<input, output, lastNew, client>>

NoOutput == [done |-> FALSE, err |-> NoError]

Init ==
    /\ input = NoMessage
    /\ output = NoOutput
    /\ lastNew = NoNewClientCall
    /\ client = NoClient
    /\ calls = [g \in Goroutines |-> IdleCall]

Next ==
    \/ \E config \in Configs, cred \in SdkInit, graph \in SdkInit, service \in SdkInit :
            DoNewClient(config, cred, graph, service)
    \/ BindMock
    \/ \E g \in Senders, msg \in SendMessages : CallSend(g, msg)
    \/ \E g \in Senders, ctx \in CallerContexts, pre \in BOOLEAN, msg \in SendMessages :
            CallSendWithContext(g, ctx, pre, msg)
    \/ \E g \in Senders, answer \in AllAnswers : ProviderReturn(g, answer)
    \/ \E g \in Senders : Tick(g)
    \/ \E g \in Senders : CancelByCaller(g)
    \/ \E g \in Senders : Finish(g)

Spec == Init /\ [][Next]_vars

(***************************************************************************)
(* Validate as a function of the Message: SpecValidate hands it every      *)
(* Message of AllMessages.                                                 *)
(***************************************************************************)
\* err := input.Validate()
RunValidate ==
    /\ ~output.done
    /\ output' = [done |-> TRUE, err |-> Validate(input)]
    /\ UNCHANGED <<input, lastNew, client, calls>>

InitValidate ==
    /\ input \in AllMessages
    /\ output = NoOutput
    /\ lastNew = NoNewClientCall
    /\ client = NoClient
    /\ calls = [g \in Goroutines |-> IdleCall]

NextValidate == RunValidate

SpecValidate == InitValidate /\ [][NextValidate]_vars

(***************************************************************************)
(* Properties of Validate (SpecValidate).                                  *)
(***************************************************************************)
\* the optional fields a Message of the model can carry
OptionalFields ==
    [Cc : {NilSlice, Slice(<<>>), Slice(<<"cc@x.com">>), Slice(<<"">>)},
     Bcc : {NilSlice, Slice(<<"bcc@x.com">>)},
     HTML : BOOLEAN,
     Attachments : AttachmentLists \cup {Slice(<<>>)}]

\* m with its optional fields replaced by those of o
WithOptional(m, o) ==
    [m EXCEPT !.Cc = o.Cc, !.Bcc = o.Bcc, !.HTML = o.HTML, !.Attachments = o.Attachments]

\* C1: Validate checks From, To, Subject, Body in this order and returns the
\* error of the first check that fails, one error and never a list: the From
\* error whenever From is empty, the recipient error when From is set and To
\* has no entry (nil or empty), the subject error when From and To pass and
\* Subject is empty, the body error when only Body is empty.
C1_ValidateFirstFailure ==
    output.done =>
        /\ Len(output.err) <= 1
        /\ input.From = "" => ErrorString(output.err) = "from address is required"
        /\ input.From # "" /\ GoLen(input.To) = 0
                => ErrorString(output.err) = "at least one recipient is required"
        /\ input.From # "" /\ GoLen(input.To) > 0 /\ input.Subject = ""
                => ErrorString(output.err) = "subject is required"
        /\ input.From # "" /\ GoLen(input.To) > 0 /\ input.Subject # "" /\ input.Body = ""
                => ErrorString(output.err) = "body is required"

\* Validate has answered a Message in which every required field is missing
C1_Witness ==
    /\ output.done
    /\ input.From = "" /\ input.To = NilSlice /\ input.Subject = "" /\ input.Body = ""
    /\ output.err = Errorf("from address is required")

\* C2: Validate succeeds exactly when From is non-empty, To has an entry,
\* Subject and Body are non-empty; the answer is the same whatever Cc, Bcc,
\* HTML and Attachments are, and the address strings are not looked at.
C2_ValidIffRequiredPresent ==
    output.done =>
        /\ output.err = NoError <=>
                /\ input.From # "" /\ GoLen(input.To) >= 1
                /\ input.Subject # "" /\ input.Body # ""
        /\ \A o \in OptionalFields : Validate(WithOptional(input, o)) = output.err

\* Validate has accepted a Message whose recipients are an empty and a
\* malformed string, with Cc and attachments set
C2_Witness ==
    /\ output.done /\ output.err = NoError
    /\ input.To = Slice(<<"", "not-an-address">>)
    /\ ~input.Cc.isNil /\ ~input.Attachments.isNil /\ input.HTML

(***************************************************************************)
(* Properties of the Client facade (Spec).                                 *)
(***************************************************************************)
\* the calls that have been made and not yet taken by their callers
Made == {calls[g] : g \in {h \in Goroutines : calls[h].pc # "idle"}}

IsContextError(err) == ErrorsIs(err, Canceled) \/ ErrorsIs(err, DeadlineExceeded)

\* C3: Send and SendWithContext run Validate before they delegate; when it
\* fails, provider.Send is not called for that call and the error returned is
\* the validation error wrapped with "invalid message", the validation error
\* staying its cause.
C3_InvalidNeverReachesProvider ==
    \A c \in Made :
        /\ c.validated = 1
        /\ Validate(c.msg) # NoError =>
                /\ c.pc = "returned"
                /\ c.invoked = <<>>
                /\ c.err = Wrap("invalid message", Validate(c.msg))
                /\ ErrorsIs(c.err, Validate(c.msg))
                /\ ErrorString(c.err) = "invalid message: " \o ErrorString(Validate(c.msg))

\* Send has returned for a Message that has a sender and nothing else
C3_Witness ==
    \E c \in Made :
        /\ c.api = "Send" /\ c.pc = "returned"
        /\ c.msg.From # "" /\ c.msg.To.isNil /\ c.msg.Subject = ""
        /\ ErrorString(c.err) = "invalid message: at least one recipient is required"

\* C4: for a valid Message, Send and SendWithContext call provider.Send
\* exactly once, with the caller's message on the client's provider, and
\* return success exactly when that one call returned no error; a call that
\* has returned leaves nothing in flight.
C4_ExactlyOneProviderCall ==
    \A c \in Made :
        Validate(c.msg) = NoError =>
            /\ Len(c.invoked) = 1
            /\ c.invoked[1].msg = c.msg
            /\ c.invoked[1].provider = client.provider
            /\ c.pc = "inflight" => c.answers = <<>>
            /\ c.pc = "returned" =>
                    /\ Len(c.answers) = 1
                    /\ c.err = NoError <=> c.answers[1] = NoError

\* a call with a valid Message has returned the failure of its one
\* provider.Send call
C4_Witness ==
    \E c \in Made :
        /\ c.pc = "returned" /\ Validate(c.msg) = NoError
        /\ Len(c.invoked) = 1 /\ c.answers[1] # NoError /\ c.err # NoError

\* C5 as claimed: when provider.Send returns an error, the facade returns
\* that error wrapped with an annotation of its own; when it returns success,
\* so does the facade.
C5_FacadeWrapsProviderError ==
    \A c \in Made :
        c.pc = "returned" /\ Validate(c.msg) = NoError =>
            /\ c.answers[1] = NoError => c.err = NoError
            /\ c.answers[1] # NoError =>
                    /\ Len(c.err) = Len(c.answers[1]) + 1
                    /\ Tail(c.err) = c.answers[1]

\* C5 as amended: the facade returns what provider.Send returned, unchanged:
\* its error with nothing added, or success.  The annotation is put on by the
\* adapters, around the error of their network call ("unable to send
\* message" by the Gmail one, "failed to send email" by the Outlook one), so
\* the cause of the failure stays what errors.Is finds.
C5_FacadeReturnsProviderError ==
    \A c \in Made :
        c.pc = "returned" /\ Validate(c.msg) = NoError =>
            /\ c.err = c.answers[1]
            /\ c.network[1] = NoError <=> c.err = NoError
            /\ c.network[1] # NoError =>
                    /\ ErrorsIs(c.err, c.network[1])
                    /\ c.invoked[1].provider = "gmail"
                            => c.err = Wrap("unable to send message", c.network[1])
                    /\ c.invoked[1].provider = "outlook365"
                            => c.err = Wrap("failed to send email", c.network[1])
                    /\ c.invoked[1].provider = "mock" => c.err = c.network[1]

\* a call on the Gmail provider has returned the failure of the network call
C5_Witness ==
    \E c \in Made :
        /\ c.pc = "returned" /\ c.invoked # <<>> /\ c.invoked[1].provider = "gmail"
        /\ ErrorString(c.err) = "unable to send message: provider error"

\* C6: Send hands SendWithContext a context made from the background context
\* with a deadline 30 seconds after the call, which ends at that time and not
\* before, and which has been cancelled when Send has returned, on every
\* path.
C6_SendDefaultTimeout ==
    \A c \in Made :
        c.api = "Send" =>
            /\ c.ctx.parent = Background.id
            /\ c.ctx.hasDeadline /\ c.ctx.deadline = DefaultTimeout
            /\ \A i \in 1..Len(c.invoked) : c.invoked[i].ctx = c.ctx
            /\ c.pc = "inflight" =>
                    (c.ctxErr = DeadlineExceeded <=> c.elapsed >= DefaultTimeout)
            /\ c.pc = "inflight" => ~c.cancelRan /\ c.ctxErr # Canceled
            /\ c.pc = "returned" => c.cancelRan /\ c.ctxErr # NoError

\* Send has returned a provider's failure before the deadline, its context
\* cancelled
C6_Witness ==
    \E c \in Made :
        /\ c.api = "Send" /\ c.pc = "returned" /\ c.elapsed < DefaultTimeout
        /\ Len(c.invoked) = 1 /\ c.err # NoError
        /\ c.cancelRan /\ c.ctxErr = Canceled

\* C7: SendWithContext hands the provider the context the caller passed: the
\* same context, with the caller's deadline or none; the client puts no
\* timeout of its own on it, so a context without a deadline never times out.
C7_ContextPassedUnchanged ==
    \A c \in Made :
        c.api = "SendWithContext" =>
            /\ c.ctx = c.given
            /\ \A i \in 1..Len(c.invoked) : c.invoked[i].ctx = c.given
            /\ ~c.cancelRan
            /\ c.ctxErr = DeadlineExceeded
                    => c.given.hasDeadline /\ c.given.deadline <= c.elapsed

\* a SendWithContext call with a context that has no deadline is in flight
\* for more than 30 seconds, the context not done
C7_Witness ==
    \E c \in Made :
        /\ c.api = "SendWithContext" /\ c.pc = "inflight"
        /\ ~c.given.hasDeadline /\ c.elapsed > DefaultTimeout
        /\ c.ctxErr = NoError

\* C8: when the provider reports the error of a context that has ended, the
\* call returns an error whose cause is that context error; the client makes
\* no timeout or cancellation error of its own: a valid Message reaches the
\* provider also with a context that is already done, and the call returns
\* what the provider returned.
C8_ContextErrorFromProvider ==
    \A c \in Made :
        /\ Validate(c.msg) = NoError =>
                Len(c.invoked) = 1
        /\ Validate(c.msg) = NoError /\ c.pc = "returned" =>
                /\ c.err = c.answers[1]
                /\ IsContextError(c.network[1]) =>
                        /\ c.err # NoError
                        /\ Cause(c.err) = c.network[1]
                        /\ ErrorsIs(c.err, c.network[1])
        /\ IsContextError(c.err) =>
                /\ Len(c.answers) = 1 /\ IsContextError(c.answers[1])
                /\ c.network[1] = c.ctxErr

\* the deadline of the caller's context has passed while provider.Send was
\* in flight, and the call has returned the provider's report of it
C8_Witness ==
    \E c \in Made :
        /\ c.api = "SendWithContext" /\ c.pc = "returned" /\ c.invoked # <<>>
        /\ c.invoked[1].ctxErr = NoError /\ c.network[1] = DeadlineExceeded
        /\ c.invoked[1].provider = "gmail"
        /\ ErrorString(c.err) = "unable to send message: context deadline exceeded"

(***************************************************************************)
(* Properties of NewClient (Spec).                                         *)
(***************************************************************************)
Supported == {"outlook365", "gmail"}

\* the sub-configuration of the provider that config does not select is set
OtherSupplied(config) ==
    \/ config.Provider = "outlook365" /\ ~config.Gmail.isNil
    \/ config.Provider = "gmail" /\ ~config.Outlook.isNil

\* C9: NewClient fails before it constructs a provider, and returns no Client,
\* with "unsupported provider: <selector>" for a selector other than
\* outlook365 and gmail, and with "outlook configuration is required" (for
\* gmail: "gmail configuration is required") when the selected provider's
\* sub-configuration is missing, the other one being supplied or not.
C9_NewClientFailsBeforeConstruction ==
    lastNew.called =>
        LET config == lastNew.config
            failsWith(text) ==
                /\ ErrorString(lastNew.err) = text
                /\ Len(lastNew.err) = 1
                /\ lastNew.ctors = <<>>
                /\ client.isNil
        IN  /\ config.Provider \notin Supported
                    => failsWith("unsupported provider: " \o config.Provider)
            /\ config.Provider = "outlook365" /\ config.Outlook.isNil
                    => failsWith("outlook configuration is required")
            /\ config.Provider = "gmail" /\ config.Gmail.isNil
                    => failsWith("gmail configuration is required")

\* NewClient has refused the selector outlook365 given with a Gmail
\* sub-configuration only
C9_Witness ==
    /\ lastNew.called
    /\ lastNew.config.Provider = "outlook365"
    /\ lastNew.config.Outlook.isNil /\ ~lastNew.config.Gmail.isNil
    /\ lastNew.err = Errorf("outlook configuration is required")
    /\ client.isNil

\* C10: NewClient rejects every Config that carries the sub-configuration of
\* the provider it does not select, alone or together with the selected one.
C10_OtherConfigRejected ==
    lastNew.called /\ OtherSupplied(lastNew.config) =>
        lastNew.err # NoError /\ client.isNil

(***************************************************************************)
(* QuickSend (email.go).  SpecQuickSend hands it every combination of      *)
(* QuickSendInputs; lastNew, client and calls show the NewClient call, the *)
(* Client and the Send call it made.                                       *)
(***************************************************************************)
\* a creds interface{} value: its dynamic type and, for a pointer to a
\* configuration, the pointer (which may be a nil pointer of that type)
Creds(type, o, g) == [type |-> type, outlook |-> o, gmail |-> g]

CredsValues ==
    {Creds("nil", NilOutlook, NilGmail), Creds("string", NilOutlook, NilGmail)}
        \cup {Creds("*OutlookConfig", o, NilGmail) : o \in OutlookConfigs}
        \cup {Creds("*GmailConfig", NilOutlook, g) : g \in GmailConfigs}

QuickSendInputs ==
    [provider : Selectors, creds : CredsValues, from : {"", "a@x.com"},
     to : {"", "b@y.com"}, subject : {"", "Hi"}, body : {"Hello"}]

\* what QuickSend did: the error it returned, its NewClient call, the
\* Client it got and its client.Send call
Quick(err, new, c, call) == [err |-> err, lastNew |-> new, client |-> c, call |-> call]

\* the rest of QuickSend, from the NewClient call on
QuickSendWith(config, in, cred, graph, service, late, answer) ==
    LET built == NewClient(config, cred, graph, service)
        new == [called |-> TRUE, config |-> config, err |-> built.err, ctors |-> built.ctors]
        msg == Message(in.from, Slice(<<in.to>>), NilSlice, NilSlice, in.subject, in.body,
                       FALSE, NilSlice)
        entered == Send(IdleCall, built.client.provider, msg)
        waited == IF late THEN [entered EXCEPT !.elapsed = DefaultTimeout,
                                               !.ctxErr = ErrAtTime(entered.ctx, @, DefaultTimeout)]
                  ELSE entered
        reply == IF answer \in Answers(waited.ctxErr) THEN answer ELSE NoError
        left == SendDeferred(ProviderReturned([waited EXCEPT !.network = Append(@, reply)],
                                ProviderSend(built.client.provider, msg, reply)))
    IN  IF built.err # NoError THEN Quick(built.err, new, NoClient, IdleCall)
        ELSE IF entered.pc = "returned" THEN Quick(entered.err, new, built.client, entered)
        ELSE Quick(left.err, new, built.client, left)

\* QuickSend that leaves the check of the credentials to NewClient
QuickSendNoTypeCheck(in, cred, graph, service, late, answer) ==
    QuickSendWith([Provider |-> in.provider,
                   Outlook |-> IF in.creds.type = "*OutlookConfig" THEN in.creds.outlook
                               ELSE NilOutlook,
                   Gmail |-> IF in.creds.type = "*GmailConfig" THEN in.creds.gmail
                             ELSE NilGmail],
                  in, cred, graph, service, late, answer)

\* func QuickSend(provider string, creds interface{}, from, to, subject, body string) error
\* cred, graph, service: what the SDK constructors do; late: the provider
\* answers after Send's deadline; answer: what the provider answers
QuickSend(in, cred, graph, service, late, answer) ==
    IF in.provider = "outlook365" /\ in.creds.type # "*OutlookConfig"
        THEN Quick(Errorf("invalid credentials for outlook365"), NoNewClientCall, NoClient,
                   IdleCall)
    ELSE IF in.provider = "gmail" /\ in.creds.type # "*GmailConfig"
        THEN Quick(Errorf("invalid credentials for gmail"), NoNewClientCall, NoClient, IdleCall)
    ELSE QuickSendWith([Provider |-> in.provider,
                        Outlook |-> IF in.provider = "outlook365" THEN in.creds.outlook
                                    ELSE NilOutlook,
                        Gmail |-> IF in.provider = "gmail" THEN in.creds.gmail ELSE NilGmail],
                       in, cred, graph, service, late, answer)

\* err := QuickSend(input.provider, input.creds, input.from, ...)
RunQuickSend(cred, graph, service, late, answer) ==
    /\ ~output.done
    /\ LET q == QuickSend(input, cred, graph, service, late, answer)
       IN  /\ output' = [done |-> TRUE, err |-> q.err]
           /\ lastNew' = q.lastNew
           /\ client' = q.client
           /\ calls' = [calls EXCEPT !["g1"] = q.call]
    /\ UNCHANGED input

InitQuickSend ==
    /\ input \in QuickSendInputs
    /\ output = NoOutput
    /\ lastNew = NoNewClientCall
    /\ client = NoClient
    /\ calls = [g \in Goroutines |-> IdleCall]

NextQuickSend ==
    \E cred \in SdkInit, graph \in SdkInit, service \in SdkInit, late \in BOOLEAN,
       answer \in AllAnswers :
        RunQuickSend(cred, graph, service, late, answer)

SpecQuickSend == InitQuickSend /\ [][NextQuickSend]_vars

\* QuickSend made no NewClient call, got no Client and sent nothing
QuickSendDidNothing ==
    /\ ~lastNew.called
    /\ client.isNil
    /\ \A g \in Goroutines : calls[g] = IdleCall

\* C11: QuickSend returns "invalid credentials for outlook365" / "invalid
\* credentials for gmail", with no client created and nothing sent, when the
\* credentials value (a nil one included) is not the configuration type of
\* the named provider; for a provider other than the two supported ones it
\* returns the unsupported-provider error whatever the credentials are.
C11_QuickSendRejectsCredentials ==
    output.done =>
        /\ input.provider = "outlook365" /\ input.creds.type # "*OutlookConfig" =>
                output.err = Errorf("invalid credentials for outlook365") /\ QuickSendDidNothing
        /\ input.provider = "gmail" /\ input.creds.type # "*GmailConfig" =>
                output.err = Errorf("invalid credentials for gmail") /\ QuickSendDidNothing
        /\ input.provider \notin Supported =>
                /\ output.err = Errorf("unsupported provider: " \o input.provider)
                /\ client.isNil
                /\ \A g \in Goroutines : calls[g] = IdleCall

C11_Witness ==
    /\ output.done
    /\ input.provider = "gmail"
    /\ input.creds.type = "nil"
    /\ output.err = Errorf("invalid credentials for gmail")
    /\ QuickSendDidNothing

(***************************************************************************)
(* Concurrent sends on one Client: in SpecConcurrent every goroutine of    *)
(* Goroutines sends with the Client that was built, in any interleaving of *)
(* the steps of their calls.                                               *)
(***************************************************************************)
ConcurrentMessages ==
    {Message("a@x.com", Slice(<<"b@y.com">>), NilSlice, NilSlice, "Hi", "Hello", FALSE, NilSlice),
     Message("a@x.com", Slice(<<"c@z.com">>), Slice(<<"cc@x.com">>), NilSlice, "Re: Hi", "Bye",
             FALSE, NilSlice),
     Message("a@x.com", Slice(<<"b@y.com">>), NilSlice, NilSlice, "", "Hello", FALSE, NilSlice)}

ConcurrentContexts ==
    {WithCancel("caller", Background), WithTimeout("caller", Background, 0, 20)}

InitConcurrent ==
    /\ input = NoMessage
    /\ output = NoOutput
    /\ lastNew = NoNewClientCall
    /\ client \in {ClientOf("outlook365"), ClientOf("gmail"), ClientOf("mock")}
    /\ calls = [g \in Goroutines |-> IdleCall]

NextConcurrent ==
    \/ \E g \in Goroutines, msg \in ConcurrentMessages : CallSend(g, msg)
    \/ \E g \in Goroutines, ctx \in ConcurrentContexts, msg \in ConcurrentMessages :
            CallSendWithContext(g, ctx, FALSE, msg)
    \/ \E g \in Goroutines, answer \in AllAnswers : ProviderReturn(g, answer)
    \/ \E g \in Goroutines : Tick(g)
    \/ \E g \in Goroutines : CancelByCaller(g)
    \/ \E g \in Goroutines : Finish(g)

SpecConcurrent == InitConcurrent /\ [][NextConcurrent]_vars

\* the call c validated and delegated its own message with its own context,
\* and what it returned is the outcome of its own validation or of its own
\* provider invocation
OwnResult(c) ==
    /\ c.validated = 1
    /\ Len(c.invoked) <= 1
    /\ c.invoked # <<>> =>
            /\ Validate(c.msg) = NoError
            /\ c.invoked[1] = [c.invoked[1] EXCEPT !.provider = client.provider,
                                                   !.ctx = c.ctx, !.msg = c.msg]
    /\ c.pc = "inflight" => c.invoked # <<>>
    /\ c.pc = "returned" =>
            IF Validate(c.msg) # NoError
                THEN c.invoked = <<>> /\ c.err = Wrap("invalid message", Validate(c.msg))
            ELSE /\ Len(c.network) = 1
                 /\ c.network[1] \in {NoError, Errorf("provider error"), c.ctxErr}
                 /\ c.err = ProviderSend(client.provider, c.msg, c.network[1])

\* C12: in every interleaving of concurrent sends on one Client a step of one
\* call leaves the Client's provider binding and every other call as they
\* were, and each call validates and delegates its own message with its own
\* context and returns the result of its own provider invocation.
C12_ConcurrentSendsIndependent ==
    [][/\ client' = client
       /\ \A g \in Goroutines :
            calls'[g] # calls[g] => \A h \in Goroutines \ {g} : calls'[h] = calls[h]
       /\ \A g \in Goroutines : calls'[g].pc # "idle" => OwnResult(calls[g])']_vars

C12_Witness ==
    /\ calls["g1"].pc = "returned" /\ calls["g1"].err = Errorf("provider error")
    /\ calls["g2"].pc = "inflight"
    /\ calls["g1"].msg # calls["g2"].msg
    /\ calls["g1"].ctx # calls["g2"].ctx
    /\ calls["g2"].invoked[1].msg = calls["g2"].msg

(***************************************************************************)
(* ConfigFromEnv and QuickClientFromEnv (config.go).  SpecFromEnv runs     *)
(* QuickClientFromEnv in every environment of Environments.                *)
(***************************************************************************)
\* an environment variable: unset, or set to a value (which may be "")
Unset == [set |-> FALSE, value |-> ""]

SetTo(v) == [set |-> TRUE, value |-> v]

\* os.Getenv: the value of the variable, "" when it is not set
Getenv(env, name) == IF env[name].set THEN env[name].value ELSE ""

\* the content of a path that is no file
NoFile == [exists |-> FALSE, data |-> ""]

File(data) == [exists |-> TRUE, data |-> data]

\* the process environment and the files it names
Environments ==
    [env : [EMAIL_PROVIDER : {Unset} \cup {SetTo(p) : p \in Selectors},
            OUTLOOK_TENANT_ID : {Unset, SetTo("tenant")},
            OUTLOOK_CLIENT_ID : {Unset, SetTo("id")},
            OUTLOOK_CLIENT_SECRET : {Unset, SetTo("secret")},
            GMAIL_CREDENTIALS_FILE : {Unset, SetTo("credentials.json"), SetTo("missing.json")},
            GMAIL_TOKEN_FILE : {Unset, SetTo(""), SetTo("my-token.json"),
                                SetTo("missing.json")}],
     files : {("credentials.json" :> c) @@ ("token.json" :> t)
                    @@ ("my-token.json" :> File(MalformedJSON)) :
                c \in {File(ValidCredentialsJSON), File(MalformedJSON)},
                t \in {NoFile, File(""), File(ValidTokenJSON)}}]

\* os.ReadFile(path)
ReadFile(files, path) ==
    IF path \in DOMAIN files /\ files[path].exists
        THEN [data |-> files[path].data, err |-> NoError]
    ELSE [data |-> "",
          err |-> Errorf("open " \o path \o ": no such file or directory")]

\* a (*Config, error) result
NoConfig == [Provider |-> "", Outlook |-> NilOutlook, Gmail |-> NilGmail]

FromEnv(isNil, config, err) == [isNil |-> isNil, config |-> config, err |-> err]

\* func outlookConfigFromEnv() (*OutlookConfig, error)
outlookConfigFromEnv(env) ==
    LET config == [isNil |-> FALSE,
                   TenantID |-> Getenv(env, "OUTLOOK_TENANT_ID"),
                   ClientID |-> Getenv(env, "OUTLOOK_CLIENT_ID"),
                   ClientSecret |-> Getenv(env, "OUTLOOK_CLIENT_SECRET")]
    IN  IF config.TenantID = ""
            THEN [config |-> NilOutlook, err |-> Errorf("OUTLOOK_TENANT_ID is required")]
        ELSE IF config.ClientID = ""
            THEN [config |-> NilOutlook, err |-> Errorf("OUTLOOK_CLIENT_ID is required")]
        ELSE IF config.ClientSecret = ""
            THEN [config |-> NilOutlook, err |-> Errorf("OUTLOOK_CLIENT_SECRET is required")]
        ELSE [config |-> config, err |-> NoError]

\* func gmailConfigFromEnv() (*GmailConfig, error)
gmailConfigFromEnv(env, files) ==
    LET credsFile == Getenv(env, "GMAIL_CREDENTIALS_FILE")
        tokenFile == IF Getenv(env, "GMAIL_TOKEN_FILE") = "" THEN "token.json"
                     ELSE Getenv(env, "GMAIL_TOKEN_FILE")
        creds == ReadFile(files, credsFile)
        token == ReadFile(files, tokenFile)
    IN  IF credsFile = ""
            THEN [config |-> NilGmail, err |-> Errorf("GMAIL_CREDENTIALS_FILE is required")]
        ELSE IF creds.err # NoError
            THEN [config |-> NilGmail,
                  err |-> Wrap("failed to read credentials file", creds.err)]
        ELSE IF token.err # NoError
            THEN [config |-> NilGmail, err |-> Wrap("failed to read token file", token.err)]
        ELSE [config |-> [isNil |-> FALSE, CredentialsJSON |-> creds.data,
                          TokenJSON |-> token.data],
              err |-> NoError]

\* ConfigFromEnv that returns the Config of a provider it does not know
ConfigFromEnvKeepsUnknown(env, files) ==
    LET provider == IF Getenv(env, "EMAIL_PROVIDER") = "" THEN "outlook365"
                    ELSE Getenv(env, "EMAIL_PROVIDER")
        outlook == outlookConfigFromEnv(env)
        gmail == gmailConfigFromEnv(env, files)
    IN  IF provider = "outlook365" /\ outlook.err = NoError
            THEN FromEnv(FALSE, [NoConfig EXCEPT !.Provider = provider,
                                                 !.Outlook = outlook.config], NoError)
        ELSE IF provider = "gmail" /\ gmail.err = NoError
            THEN FromEnv(FALSE, [NoConfig EXCEPT !.Provider = provider,
                                                 !.Gmail = gmail.config], NoError)
        ELSE FromEnv(FALSE, [NoConfig EXCEPT !.Provider = provider], NoError)

\* func ConfigFromEnv() (*Config, error)
ConfigFromEnv(env, files) ==
    LET provider == IF Getenv(env, "EMAIL_PROVIDER") = "" THEN "outlook365"
                    ELSE Getenv(env, "EMAIL_PROVIDER")
        outlook == outlookConfigFromEnv(env)
        gmail == gmailConfigFromEnv(env, files)
    IN  IF provider = "outlook365"
            THEN IF outlook.err # NoError
                    THEN FromEnv(TRUE, NoConfig, Wrap("outlook config error", outlook.err))
                 ELSE FromEnv(FALSE, [NoConfig EXCEPT !.Provider = provider,
                                                      !.Outlook = outlook.config], NoError)
        ELSE IF provider = "gmail"
            THEN IF gmail.err # NoError
                    THEN FromEnv(TRUE, NoConfig, Wrap("gmail config error", gmail.err))
                 ELSE FromEnv(FALSE, [NoConfig EXCEPT !.Provider = provider,
                                                      !.Gmail = gmail.config], NoError)
        ELSE FromEnv(TRUE, NoConfig, Errorf("unsupported email provider: " \o provider))

\* func QuickClientFromEnv() (*Client, error), with its ConfigFromEnv result
\* and its NewClient call
QuickClientFromEnv(env, files, cred, graph, service) ==
    LET from == ConfigFromEnv(env, files)
        built == NewClient(from.config, cred, graph, service)
    IN  IF from.err # NoError
            THEN [fromEnv |-> from, lastNew |-> NoNewClientCall, client |-> NoClient,
                  err |-> from.err]
        ELSE [fromEnv |-> from,
              lastNew |-> [called |-> TRUE, config |-> from.config, err |-> built.err,
                           ctors |-> built.ctors],
              client |-> built.client, err |-> built.err]

\* client, err := QuickClientFromEnv()
RunQuickClientFromEnv(cred, graph, service) ==
    /\ ~output.done
    /\ LET q == QuickClientFromEnv(input.env, input.files, cred, graph, service)
       IN  /\ output' = [done |-> TRUE, err |-> q.err, fromEnv |-> q.fromEnv]
           /\ lastNew' = q.lastNew
           /\ client' = q.client
    /\ UNCHANGED <<input, calls>>

InitFromEnv ==
    /\ input \in Environments
    /\ output = NoOutput
    /\ lastNew = NoNewClientCall
    /\ client = NoClient
    /\ calls = [g \in Goroutines |-> IdleCall]

NextFromEnv ==
    \E cred \in SdkInit, graph \in SdkInit, service \in SdkInit :
        RunQuickClientFromEnv(cred, graph, service)

SpecFromEnv == InitFromEnv /\ [][NextFromEnv]_vars

\* C13: ConfigFromEnv takes "outlook365" when EMAIL_PROVIDER is unset or
\* empty, rejects every provider other than "outlook365" and "gmail", and a
\* Config it returns has the sub-configuration of its Provider set and the
\* other one nil, so that the NewClient call of QuickClientFromEnv never fails
\* with an unsupported-provider or a missing-configuration error.
C13_ConfigFromEnvWellFormed ==
    output.done =>
        LET named == Getenv(input.env, "EMAIL_PROVIDER")
            from == output.fromEnv
        IN  /\ named = "" =>
                    IF from.err = NoError THEN from.config.Provider = "outlook365"
                    ELSE from.err[1] = "outlook config error"
            /\ named \notin Supported \cup {""} =>
                    /\ from.isNil
                    /\ from.err = Errorf("unsupported email provider: " \o named)
            /\ from.err = NoError =>
                    /\ ~from.isNil
                    /\ from.config.Provider \in Supported
                    /\ from.config.Outlook.isNil <=> from.config.Provider # "outlook365"
                    /\ from.config.Gmail.isNil <=> from.config.Provider # "gmail"
                    /\ lastNew.called /\ lastNew.config = from.config
                    /\ lastNew.err \notin
                            {Errorf("unsupported provider: " \o from.config.Provider),
                             Errorf("outlook configuration is required"),
                             Errorf("gmail configuration is required")}
            /\ from.err # NoError => ~lastNew.called /\ client.isNil

C13_Witness ==
    /\ output.done
    /\ ~input.env["EMAIL_PROVIDER"].set
    /\ output.fromEnv.err = NoError
    /\ output.fromEnv.config.Provider = "outlook365"
    /\ output.fromEnv.config.Gmail.isNil
    /\ lastNew.called /\ lastNew.err = NoError /\ ~client.isNil

\* C14: NewClient with provider "gmail", CredentialsJSON that parses and no
\* TokenJSON yields a Client (unless the Gmail service cannot be created):
\* the token is only needed on first use.
C14_GmailTokenOptional ==
    /\ lastNew.called
    /\ lastNew.config.Provider = "gmail"
    /\ ~lastNew.config.Gmail.isNil
    /\ lastNew.config.Gmail.CredentialsJSON = ValidCredentialsJSON
    /\ Len(lastNew.config.Gmail.TokenJSON) = 0
    => \/ lastNew.err = NoError /\ ~client.isNil
       \/ ErrorsIs(lastNew.err, Errorf("gmail: no transport"))

(***************************************************************************)
(* Strings and bytes (strings, path/filepath, encoding/base64).  A Go      *)
(* string is a TLA+ string of ASCII characters, s[i:j] is SubSeq(s, i+1,   *)
(* j); a []byte is a sequence of numbers in 0..255.                        *)
(***************************************************************************)
CRLF == "\r\n"

RECURSIVE Join(_, _)
\* strings.Join(elems, sep)
Join(elems, sep) ==
    IF Len(elems) = 0 THEN ""
    ELSE IF Len(elems) = 1 THEN elems[1]
    ELSE elems[1] \o sep \o Join(Tail(elems), sep)

\* the i-th character of s, counted from 1
CharAt(s, i) == SubSeq(s, i, i)

CharsOf(s) == {CharAt(s, i) : i \in 1..Len(s)}

IndexIn(s, ch) == CHOOSE i \in 1..Len(s) : CharAt(s, i) = ch

UpperLetters == "ABCDEFGHIJKLMNOPQRSTUVWXYZ"

LowerLetters == "abcdefghijklmnopqrstuvwxyz"

LowerOf == [ch \in CharsOf(UpperLetters) |-> CharAt(LowerLetters, IndexIn(UpperLetters, ch))]

RECURSIVE ToLower(_)
\* strings.ToLower(s)
ToLower(s) ==
    IF Len(s) = 0 THEN ""
    ELSE (IF Head(s) \in DOMAIN LowerOf THEN LowerOf[Head(s)] ELSE Head(s)) \o ToLower(Tail(s))

RECURSIVE ExtFrom(_, _)
\* the loop of filepath.Ext: from position i down to the last path separator
ExtFrom(path, i) ==
    IF i < 1 \/ CharAt(path, i) = "/" THEN ""
    ELSE IF CharAt(path, i) = "." THEN SubSeq(path, i, Len(path))
    ELSE ExtFrom(path, i - 1)

\* filepath.Ext(path): the suffix of the last path element from its last dot
Ext(path) == ExtFrom(path, Len(path))

\* the ASCII characters from the space (32) to the underscore (95) and from
\* "a" (97) to the tilde (126)
PrintableLow == " !\"#$%&'()*+,-./0123456789:;<=>?@ABCDEFGHIJKLMNOPQRSTUVWXYZ[\\]^_"

PrintableHigh == "abcdefghijklmnopqrstuvwxyz{|}~"

\* the byte of a character
CodeOf ==
    [ch \in CharsOf(PrintableLow) \cup CharsOf(PrintableHigh) \cup {"\r", "\n", "\t"} |->
        IF ch = "\r" THEN 13 ELSE IF ch = "\n" THEN 10 ELSE IF ch = "\t" THEN 9
        ELSE IF ch \in CharsOf(PrintableLow) THEN 31 + IndexIn(PrintableLow, ch)
        ELSE 96 + IndexIn(PrintableHigh, ch)]

\* []byte(s)
Bytes(s) == [i \in 1..Len(s) |-> CodeOf[CharAt(s, i)]]

StdAlphabet == "ABCDEFGHIJKLMNOPQRSTUVWXYZabcdefghijklmnopqrstuvwxyz0123456789+/"

URLAlphabet == "ABCDEFGHIJKLMNOPQRSTUVWXYZabcdefghijklmnopqrstuvwxyz0123456789-_"

\* the four characters for the group of up to three bytes that starts at
\* src[i-1], padded with "=" when the group is short
EncodeGroup(alphabet, src, i) ==
    LET n == Len(src) - i + 1
        val == src[i] * 65536 + (IF n >= 2 THEN src[i + 1] * 256 ELSE 0)
                    + (IF n >= 3 THEN src[i + 2] ELSE 0)
        digit(k) == CharAt(alphabet, k + 1)
    IN  digit(val \div 262144) \o digit((val \div 4096) % 64)
            \o (IF n >= 2 THEN digit((val \div 64) % 64) ELSE "=")
            \o (IF n >= 3 THEN digit(val % 64) ELSE "=")

RECURSIVE EncodeGroups(_, _, _, _)
\* the base64 text of the groups first..last of src, in their order
EncodeGroups(alphabet, src, first, last) ==
    IF first > last THEN ""
    ELSE IF first = last THEN EncodeGroup(alphabet, src, 3 * first - 2)
    ELSE LET mid == (first + last) \div 2
         IN  EncodeGroups(alphabet, src, first, mid)
                \o EncodeGroups(alphabet, src, mid + 1, last)

\* base64.StdEncoding.EncodeToString(src)
StdEncodeToString(src) == EncodeGroups(StdAlphabet, src, 1, (Len(src) + 2) \div 3)

\* base64.URLEncoding.EncodeToString(src)
URLEncodeToString(src) == EncodeGroups(URLAlphabet, src, 1, (Len(src) + 2) \div 3)

StdIndex == [ch \in CharsOf(StdAlphabet) |-> IndexIn(StdAlphabet, ch) - 1]

RECURSIVE StdDecodeFrom(_, _)
\* the bytes of the base64 text s[i-1:], four characters to three bytes
StdDecodeFrom(s, i) ==
    IF i > Len(s) THEN <<>>
    ELSE LET six(k) == IF CharAt(s, i + k) = "=" THEN 0 ELSE StdIndex[CharAt(s, i + k)]
             val == six(0) * 262144 + six(1) * 4096 + six(2) * 64 + six(3)
             n == IF CharAt(s, i + 2) = "=" THEN 1 ELSE IF CharAt(s, i + 3) = "=" THEN 2 ELSE 3
         IN  SubSeq(<<val \div 65536, (val \div 256) % 256, val % 256>>, 1, n)
                \o StdDecodeFrom(s, i + 4)

\* base64.StdEncoding.DecodeString(s), for a text that is padded base64
StdDecodeString(s) == StdDecodeFrom(s, 1)

(***************************************************************************)
(* The attachment part (gmail.go: addAttachment; outlook.go: attachFiles,  *)
(* getContentType).                                                        *)
(***************************************************************************)
\* func getContentType(filename string) string
getContentType(filename) ==
    LET ext == ToLower(Ext(filename))
    IN  CASE ext = ".pdf" -> "application/pdf"
          [] ext = ".doc" -> "application/msword"
          [] ext = ".docx" ->
                "application/vnd.openxmlformats-officedocument.wordprocessingml.document"
          [] ext = ".xls" -> "application/vnd.ms-excel"
          [] ext = ".xlsx" ->
                "application/vnd.openxmlformats-officedocument.spreadsheetml.sheet"
          [] ext = ".png" -> "image/png"
          [] ext \in {".jpg", ".jpeg"} -> "image/jpeg"
          [] ext = ".gif" -> "image/gif"
          [] ext = ".txt" -> "text/plain"
          [] ext \in {".html", ".htm"} -> "text/html"
          [] ext = ".zip" -> "application/zip"
          [] ext = ".csv" -> "text/csv"
          [] ext = ".xml" -> "application/xml"
          [] ext = ".json" -> "application/json"
          [] OTHER -> "application/octet-stream"

\* the length of an encoded line (RFC 2045)
LineWidth == 76

RECURSIVE WrapFromDropsShortLine(_, _)
\* the wrapping loop without its last, shorter line
WrapFromDropsShortLine(encoded, i) ==
    IF i + LineWidth > Len(encoded) THEN ""
    ELSE SubSeq(encoded, i + 1, i + LineWidth) \o CRLF
            \o WrapFromDropsShortLine(encoded, i + LineWidth)

RECURSIVE WrapFrom(_, _)
\* the loop of addAttachment from index i on: encoded[i:end] and a line
\* terminator, for i, i + 76, ... below len(encoded)
WrapFrom(encoded, i) ==
    IF i >= Len(encoded) THEN ""
    ELSE LET end == IF i + LineWidth > Len(encoded) THEN Len(encoded) ELSE i + LineWidth
         IN  SubSeq(encoded, i + 1, end) \o CRLF \o WrapFrom(encoded, end)

\* the content type of an attachment without its MimeType looked at
mimeTypeOfNameOnly(att) == getContentType(att.Filename)

\* mimeType := att.MimeType; if mimeType == "" { mimeType = getContentType(att.Filename) }
mimeTypeOf(att) == IF att.MimeType = "" THEN getContentType(att.Filename) ELSE att.MimeType

\* func (g *gmailProvider) addAttachment(message *strings.Builder, att Attachment,
\* boundary string): the text it writes to message
addAttachment(att, boundary) ==
    "--" \o boundary \o CRLF
        \o "Content-Type: " \o mimeTypeOf(att) \o "; name=\"" \o att.Filename \o "\"" \o CRLF
        \o "Content-Transfer-Encoding: base64" \o CRLF
        \o "Content-Disposition: attachment; filename=\"" \o att.Filename \o "\"" \o CRLF
        \o CRLF
        \o WrapFrom(StdEncodeToString(att.Content), 0)
        \o CRLF

\* the body of the loop of attachFiles for one attachment: the file
\* attachment of the Graph message
fileAttachment(att) ==
    [Name |-> att.Filename, ContentBytes |-> att.Content,
     ContentType |-> IF att.MimeType = "" THEN getContentType(att.Filename) ELSE att.MimeType]

\* the longest attachment content, in bytes
MaxContentLen == 115

\* n bytes that depend on their position
Content(n, seed) == [i \in 1..n |-> (seed + 41 * i) % 256]

\* file names: each extension of the table in two spellings, other
\* extensions, several dots, a dot in a directory name only, no dot
FileNames ==
    {"report.pdf", "A.PDF", "letter.doc", "Letter.Doc", "letter.docx", "L.DOCX",
     "sheet.xls", "SHEET.XLS", "sheet.xlsx", "Sheet.Xlsx", "logo.png", "LOGO.PNG",
     "photo.jpg", "photo.JPG", "photo.jpeg", "Photo.JPeG", "anim.gif", "ANIM.GIF",
     "notes.txt", "NOTES.TXT", "page.html", "PAGE.HTML", "page.htm", "Page.Htm",
     "files.zip", "FILES.ZIP", "data.csv", "DATA.CSV", "feed.xml", "FEED.XML",
     "conf.json", "Conf.JSON",
     "archive.tar.gz", "report.final.pdf", "movie.mp4", "pdf", "README", "dir.pdf/README",
     "trailing.", ".pdf", "x.pdfx", "x.pd"}

AttachInputs ==
    {Attachment(name, content, mime) :
        name \in FileNames, content \in {<<>>, <<116, 101>>},
        mime \in {"", "application/x-custom"}}
    \cup {Attachment("data.bin", Content(n, seed), "") :
            n \in 0..MaxContentLen, seed \in {0, 200}}

\* one attachment written by each provider
RunAddAttachment(boundary) ==
    /\ ~output.done
    /\ output' = [done |-> TRUE, err |-> NoError,
                  text |-> addAttachment(input, boundary),
                  graph |-> fileAttachment(input)]
    /\ UNCHANGED <<input, lastNew, client, calls>>

InitAttach ==
    /\ input \in AttachInputs
    /\ output = NoOutput
    /\ lastNew = NoNewClientCall
    /\ client = NoClient
    /\ calls = [g \in Goroutines |-> IdleCall]

NextAttach == \E boundary \in {"boundary-1730588400000000000"} : RunAddAttachment(boundary)

SpecAttach == InitAttach /\ [][NextAttach]_vars

(***************************************************************************)
(* The Gmail message (gmail.go: createMessage).                            *)
(***************************************************************************)
\* the headers map with a Cc and a Bcc entry for every Message
headersOfAlwaysCc(msg, contentType) ==
    [k \in {"From", "To", "Cc", "Bcc", "Subject", "MIME-Version", "Content-Type"} |->
        CASE k = "From" -> msg.From
          [] k = "To" -> Join(msg.To.elems, ", ")
          [] k = "Cc" -> Join(msg.Cc.elems, ", ")
          [] k = "Bcc" -> Join(msg.Bcc.elems, ", ")
          [] k = "Subject" -> msg.Subject
          [] k = "MIME-Version" -> "1.0"
          [] OTHER -> contentType]

\* the headers map of createMessage once its Content-Type entry is set
headersOf(msg, contentType) ==
    [k \in {"From", "To", "Subject", "MIME-Version", "Content-Type"}
            \cup (IF GoLen(msg.Cc) > 0 THEN {"Cc"} ELSE {})
            \cup (IF GoLen(msg.Bcc) > 0 THEN {"Bcc"} ELSE {}) |->
        CASE k = "From" -> msg.From
          [] k = "To" -> Join(msg.To.elems, ", ")
          [] k = "Cc" -> Join(msg.Cc.elems, ", ")
          [] k = "Bcc" -> Join(msg.Bcc.elems, ", ")
          [] k = "Subject" -> msg.Subject
          [] k = "MIME-Version" -> "1.0"
          [] OTHER -> contentType]

\* the keys of the headers map in the order createMessage inserts them
InsertionOrder(headers) ==
    SelectSeq(<<"From", "To", "Cc", "Bcc", "Subject", "MIME-Version", "Content-Type">>,
              LAMBDA k : k \in DOMAIN headers)

\* the orders in which a range statement visits the keys of the headers map.
\* The language leaves the order open; the runtime starts at an entry chosen
\* at random and goes once round the entries of a map this small (at most
\* eight entries, none deleted), so that a run sees the insertion order
\* rotated by any number of places
RangeOrders(headers) ==
    LET keys == InsertionOrder(headers)
    IN  {SubSeq(keys, r + 1, Len(keys)) \o SubSeq(keys, 1, r) : r \in 0..(Len(keys) - 1)}

writeHeadersBareLF(headers, order) ==
    Join([i \in 1..Len(order) |-> order[i] \o ": " \o headers[order[i]] \o "\n"], "")

RECURSIVE writeHeaders(_, _)
\* for k, v := range headers { message.WriteString(fmt.Sprintf("%s: %s\r\n", k, v)) }
\* with the keys visited in the given order
writeHeaders(headers, order) ==
    IF order = <<>> THEN ""
    ELSE Head(order) \o ": " \o headers[Head(order)] \o CRLF
            \o writeHeaders(headers, Tail(order))

\* the content type of the body
bodyContentType(msg) ==
    IF msg.HTML THEN "text/html; charset=utf-8" ELSE "text/plain; charset=utf-8"

\* the branch without attachments with a line terminator after the body
simpleMessageTerminated(msg, order) ==
    writeHeaders(headersOf(msg, bodyContentType(msg)), order) \o CRLF \o msg.Body \o CRLF

\* the branch of createMessage for a Message without attachments
simpleMessage(msg, order) ==
    writeHeaders(headersOf(msg, bodyContentType(msg)), order) \o CRLF \o msg.Body

RECURSIVE writeAttachmentsLastFirst(_, _)
\* the attachment loop running from the last attachment to the first
writeAttachmentsLastFirst(atts, boundary) ==
    IF atts = <<>> THEN ""
    ELSE addAttachment(atts[Len(atts)], boundary)
            \o writeAttachmentsLastFirst(SubSeq(atts, 1, Len(atts) - 1), boundary)

RECURSIVE writeAttachments(_, _)
\* for _, att := range msg.Attachments { g.addAttachment(&message, att, boundary) }
writeAttachments(atts, boundary) ==
    IF atts = <<>> THEN ""
    ELSE addAttachment(Head(atts), boundary) \o writeAttachments(Tail(atts), boundary)

\* the branch of createMessage for a Message with attachments
multipartMessage(msg, order, boundary) ==
    writeHeaders(headersOf(msg, "multipart/mixed; boundary=" \o boundary), order)
        \o CRLF
        \o "--" \o boundary \o CRLF
        \o "Content-Type: " \o bodyContentType(msg) \o CRLF
        \o CRLF
        \o msg.Body
        \o CRLF \o CRLF
        \o writeAttachments(msg.Attachments.elems, boundary)
        \o "--" \o boundary \o "--" \o CRLF

\* message.String() at the end of createMessage; order: the order in which
\* the range statement visits the headers; now: time.Now().UnixNano() in
\* decimal digits
messageString(msg, order, now) ==
    IF GoLen(msg.Attachments) > 0 THEN multipartMessage(msg, order, "boundary-" \o now)
    ELSE simpleMessage(msg, order)

createMessageEncodedTwice(msg, order, now) ==
    [Raw |-> URLEncodeToString(Bytes(URLEncodeToString(Bytes(messageString(msg, order, now))))),
     err |-> NoError]

\* func (g *gmailProvider) createMessage(msg *Message) (*gmail.Message, error)
createMessage(msg, order, now) ==
    [Raw |-> URLEncodeToString(Bytes(messageString(msg, order, now))), err |-> NoError]

\* the most attachments a Message of SpecEncode carries
MaxAttachments == 2

\* the i-th file of the model
EncodeFile(i) ==
    Attachment("file" \o ToString(i) \o ".txt", Content(i + 1, 50 * i),
               IF i % 2 = 0 THEN "application/x-custom" ELSE "")

\* no attachments (nil and empty), and 1..MaxAttachments files in both orders
EncodeAttachmentLists ==
    {NilSlice, Slice(<<>>)}
        \cup {Slice([i \in 1..n |-> EncodeFile(i)]) : n \in 1..MaxAttachments}
        \cup {Slice([i \in 1..n |-> EncodeFile(n + 1 - i)]) : n \in 1..MaxAttachments}

\* the valid Messages createMessage is applied to
EncodeMessages ==
    {Message("a@x.com", to, cc, bcc, "Hi", "Hello", h, a) :
        to \in {Slice(<<"b@y.com">>), Slice(<<"b@y.com", "c@z.com">>)},
        cc \in {NilSlice, Slice(<<>>), Slice(<<"cc1@x.com", "cc2@x.com">>)},
        bcc \in {NilSlice, Slice(<<"bcc1@x.com">>)},
        h \in BOOLEAN, a \in EncodeAttachmentLists}
    \cup {Message("a@x.com", Slice(<<"b@y.com">>), NilSlice, NilSlice, "Re: Hi",
                  "Dear all,\r\n\r\n  see the file???\r\nBye\r\n", h, a) :
            h \in BOOLEAN, a \in EncodeAttachmentLists}

\* the readings of the clock, as fmt.Sprintf("%d", time.Now().UnixNano())
UnixNanoReadings == {"1730588400000000000", "1730588400000001000"}

\* gmailMsg, err := g.createMessage(input)
RunCreateMessage(order, now) ==
    /\ ~output.done
    /\ LET gmailMsg == createMessage(input, order, now)
       IN  output' = [done |-> TRUE, err |-> gmailMsg.err,
                      text |-> messageString(input, order, now), Raw |-> gmailMsg.Raw]
    /\ UNCHANGED <<input, lastNew, client, calls>>

InitEncode ==
    /\ input \in EncodeMessages
    /\ output = NoOutput
    /\ lastNew = NoNewClientCall
    /\ client = NoClient
    /\ calls = [g \in Goroutines |-> IdleCall]

NextEncode ==
    /\ ~output.done
    /\ \E order \in RangeOrders(headersOf(input, "")), now \in UnixNanoReadings :
            RunCreateMessage(order, now)

SpecEncode == InitEncode /\ [][NextEncode]_vars

(***************************************************************************)
(* Reading an encoded text back.                                           *)
(***************************************************************************)
\* the position of the first line terminator of s at or after position i,
\* 0 when there is none
NextCRLF(s, i) ==
    LET at == {j \in i..(Len(s) - 1) : SubSeq(s, j, j + 1) = CRLF}
    IN  IF at = {} THEN 0 ELSE CHOOSE j \in at : \A k \in at : j <= k

RECURSIVE SplitFrom(_, _)
\* the pieces of s between line terminators, from position start on
SplitFrom(s, start) ==
    LET end == NextCRLF(s, start)
    IN  IF end = 0 THEN <<SubSeq(s, start, Len(s))>>
        ELSE <<SubSeq(s, start, end - 1)>> \o SplitFrom(s, end + 2)

\* the lines of s, each without its terminator, and last what follows the
\* last terminator ("" when s ends with one)
Lines(s) == SplitFrom(s, 1)

HasPrefix(s, prefix) == Len(s) >= Len(prefix) /\ SubSeq(s, 1, Len(prefix)) = prefix

HasSuffix(s, suffix) ==
    Len(s) >= Len(suffix) /\ SubSeq(s, Len(s) - Len(suffix) + 1, Len(s)) = suffix

Contains(s, sub) == \E i \in 1..(Len(s) - Len(sub) + 1) : SubSeq(s, i, i + Len(sub) - 1) = sub

\* the encoded lines of an attachment part that has four header lines, a
\* blank line, the encoded lines and a closing blank line
EncodedLines(part) == SubSeq(part, 6, Len(part) - 1)

\* C19: the encoded body of an attachment consists of lines of at most 76
\* characters, each but the last of exactly 76, which put together are the
\* padded base64 text that decodes to the content; empty content gives no
\* encoded line.
C19_AttachmentBodyWrapped ==
    output.done =>
        LET all == Lines(output.text)
            part == SubSeq(all, 1, Len(all) - 1)
            enc == EncodedLines(part)
            n == Len(input.Content)
        IN  /\ all[Len(all)] = ""
            /\ Len(part) >= 6 /\ part[5] = "" /\ part[Len(part)] = ""
            /\ \A i \in 1..Len(enc) :
                    /\ Len(enc[i]) \in 1..76
                    /\ i < Len(enc) => Len(enc[i]) = 76
            /\ Len(Join(enc, "")) = 4 * ((n + 2) \div 3)
            /\ CharsOf(Join(enc, "")) \subseteq CharsOf(StdAlphabet) \cup {"="}
            /\ StdDecodeString(Join(enc, "")) = input.Content
            /\ n = 0 => enc = <<>>

C19_Witness ==
    /\ output.done
    /\ Len(input.Content) = 114
    /\ LET all == Lines(output.text)
       IN  /\ Len(all) = 9
           /\ Len(all[6]) = 76 /\ Len(all[7]) = 76 /\ all[8] = ""

\* what the claim's table gives for a file name: the spellings of the
\* extensions of FileNames and their types
TableTypes ==
    [pdf |-> "application/pdf", PDF |-> "application/pdf",
     doc |-> "application/msword", Doc |-> "application/msword",
     docx |-> "application/vnd.openxmlformats-officedocument.wordprocessingml.document",
     DOCX |-> "application/vnd.openxmlformats-officedocument.wordprocessingml.document",
     xls |-> "application/vnd.ms-excel", XLS |-> "application/vnd.ms-excel",
     xlsx |-> "application/vnd.openxmlformats-officedocument.spreadsheetml.sheet",
     Xlsx |-> "application/vnd.openxmlformats-officedocument.spreadsheetml.sheet",
     png |-> "image/png", PNG |-> "image/png",
     jpg |-> "image/jpeg", JPG |-> "image/jpeg", jpeg |-> "image/jpeg", JPeG |-> "image/jpeg",
     gif |-> "image/gif", GIF |-> "image/gif",
     txt |-> "text/plain", TXT |-> "text/plain",
     html |-> "text/html", HTML |-> "text/html", htm |-> "text/html", Htm |-> "text/html",
     zip |-> "application/zip", ZIP |-> "application/zip",
     csv |-> "text/csv", CSV |-> "text/csv",
     xml |-> "application/xml", XML |-> "application/xml",
     json |-> "application/json", JSON |-> "application/json"]

\* the type the claim gives an attachment
ClaimedType(att) ==
    IF att.MimeType # "" THEN att.MimeType
    ELSE IF \E e \in DOMAIN TableTypes : HasSuffix(att.Filename, "." \o e)
        THEN TableTypes[CHOOSE e \in DOMAIN TableTypes : HasSuffix(att.Filename, "." \o e)]
    ELSE "application/octet-stream"

\* C20: the content type of an attachment is its MimeType when that is not
\* empty, else the table's entry for the extension of its file name in any
\* spelling of upper and lower case, else application/octet-stream, and the
\* Gmail part and the Graph attachment carry the same type.
C20_ContentTypeResolution ==
    output.done =>
        /\ Lines(output.text)[2]
                = "Content-Type: " \o ClaimedType(input) \o "; name=\"" \o input.Filename \o "\""
        /\ output.graph.ContentType = ClaimedType(input)

C20_Witness ==
    /\ output.done
    /\ input.Filename = "A.PDF" /\ input.MimeType = ""
    /\ Lines(output.text)[2] = "Content-Type: application/pdf; name=\"A.PDF\""
    /\ output.graph.ContentType = "application/pdf"

\* the position of the first empty line of lines
FirstBlank(lines) ==
    CHOOSE i \in 1..Len(lines) : lines[i] = "" /\ \A j \in 1..(i - 1) : lines[j] # ""

\* the lines of the header block of an encoded message: those before the
\* first empty line
HeaderLines(text) == SubSeq(Lines(text), 1, FirstBlank(Lines(text)) - 1)

\* what follows the empty line that ends the header block
AfterHeaders(text) ==
    Join(SubSeq(Lines(text), FirstBlank(Lines(text)) + 1, Len(Lines(text))), CRLF)

\* the header lines of the field name
LinesOf(lines, name) == {i \in 1..Len(lines) : HasPrefix(lines[i], name \o ":")}

HeadersAsListed(msg, contentType) ==
    <<"From: " \o msg.From, "To: " \o Join(msg.To.elems, ", ")>>
        \o (IF GoLen(msg.Cc) > 0 THEN <<"Cc: " \o Join(msg.Cc.elems, ", ")>> ELSE <<>>)
        \o (IF GoLen(msg.Bcc) > 0 THEN <<"Bcc: " \o Join(msg.Bcc.elems, ", ")>> ELSE <<>>)
        \o <<"Subject: " \o msg.Subject, "MIME-Version: 1.0", "Content-Type: " \o contentType>>

\* C16: the encoding of a Message without attachments is a function of the
\* Message: its header lines come in the listed order (From, To, Cc and Bcc
\* when present, Subject, MIME-Version, Content-Type) on every run, so that
\* two runs give the same raw string.
C16_EncoderDeterministic ==
    output.done /\ GoLen(input.Attachments) = 0 =>
        /\ HeaderLines(output.text)
                = HeadersAsListed(input, IF input.HTML THEN "text/html; charset=utf-8"
                                         ELSE "text/plain; charset=utf-8")
        /\ output.text
                = Join(HeaderLines(output.text), CRLF) \o CRLF \o CRLF \o input.Body

RECURSIVE PositionsFrom(_, _, _)
PositionsFrom(lines, line, i) ==
    IF i > Len(lines) THEN <<>>
    ELSE (IF lines[i] = line THEN <<i>> ELSE <<>>) \o PositionsFrom(lines, line, i + 1)

\* the boundary a multipart header block declares
DeclaredBoundary(text) ==
    LET head == HeaderLines(text)
        prefix == "Content-Type: multipart/mixed; boundary="
        i == CHOOSE j \in 1..Len(head) : HasPrefix(head[j], prefix)
    IN  SubSeq(head[i], Len(prefix) + 1, Len(head[i]))

\* the parts of a multipart text: for each opening boundary line the lines
\* after it up to the next boundary line
Parts(text) ==
    LET lines == Lines(text)
        open == PositionsFrom(lines, "--" \o DeclaredBoundary(text), 1)
        close == PositionsFrom(lines, "--" \o DeclaredBoundary(text) \o "--", 1)
        ends == Tail(open) \o close
    IN  [j \in 1..Len(open) |-> SubSeq(lines, open[j] + 1, ends[j] - 1)]

\* C18: a Message with N >= 1 attachments is encoded with exactly N
\* attachment parts after the body part, the i-th of them with the file name
\* of the i-th attachment in its Content-Type name and its Content-Disposition
\* filename and with the i-th attachment's content.
C18_AttachmentPartsInOrder ==
    output.done /\ GoLen(input.Attachments) > 0 =>
        LET parts == Parts(output.text)
            atts == input.Attachments.elems
        IN  /\ Len(parts) = Len(atts) + 1
            /\ HasPrefix(parts[1][1], "Content-Type: text/")
            /\ \A i \in 1..Len(atts) :
                LET part == parts[i + 1]
                IN  /\ Len(part) >= 5
                    /\ HasPrefix(part[1], "Content-Type: ")
                    /\ HasSuffix(part[1], "; name=\"" \o atts[i].Filename \o "\"")
                    /\ part[2] = "Content-Transfer-Encoding: base64"
                    /\ part[3] = "Content-Disposition: attachment; filename=\""
                                    \o atts[i].Filename \o "\""
                    /\ part[4] = ""
                    /\ part[Len(part)] = ""
                    /\ StdDecodeString(Join(SubSeq(part, 5, Len(part) - 1), ""))
                            = atts[i].Content

C18_Witness ==
    /\ output.done
    /\ GoLen(input.Attachments) = 2
    /\ input.Attachments.elems[1].Filename = "file2.txt"
    /\ Len(Parts(output.text)) = 3
    /\ Parts(output.text)[2][3] = "Content-Disposition: attachment; filename=\"file2.txt\""
    /\ Parts(output.text)[3][3] = "Content-Disposition: attachment; filename=\"file1.txt\""

\* ---------------------------------------------------------------------
\* The Outlook adapter: the Graph message built from a Message
\* ---------------------------------------------------------------------

\* How the build treats the variable of a `for ... range` loop: one variable
\* for the whole loop (Go up to 1.21, the two versions of the CI matrix) or
\* a fresh variable for each iteration (Go 1.22 and later).
LoopVars == {"perLoop", "perIteration"}

\* The variable the i-th iteration of a range loop assigns to.
LoopCell(loopvar, i) == IF loopvar = "perLoop" THEN 1 ELSE i

\* What the variable `cell` holds once a loop over `values` is over: the
\* value of the last iteration that assigned to it.
LoopCellValue(values, loopvar, cell) ==
    LET last == CHOOSE i \in 1..Len(values) :
                    /\ LoopCell(loopvar, i) = cell
                    /\ \A j \in (i + 1)..Len(values) : LoopCell(loopvar, j) # cell
    IN  values[last]

\* createRecipients: recipient i keeps &addr, the address of the loop variable;
\* the request is written after the loop, so recipient i carries what that
\* variable holds then.
createRecipients(addresses, loopvar) ==
    [i \in 1..Len(addresses) |->
        [EmailAddress |->
            [Address |-> LoopCellValue(addresses, loopvar, LoopCell(loopvar, i))]]]

outlookBodyTypeAlwaysText(msg) == "TEXT_BODYTYPE"

\* the body type constructMessage sets
outlookBodyType(msg) == IF msg.HTML THEN "HTML_BODYTYPE" ELSE "TEXT_BODYTYPE"

\* constructMessage: subject, body, the To recipients always, the Cc and Bcc
\* recipients only when the list is not empty; no attachments yet.
constructMessage(msg, loopvar) ==
    [Subject |-> msg.Subject,
     Body |-> [ContentType |-> outlookBodyType(msg), Content |-> msg.Body],
     ToRecipients |-> Slice(createRecipients(msg.To.elems, loopvar)),
     CcRecipients |-> IF GoLen(msg.Cc) > 0
                        THEN Slice(createRecipients(msg.Cc.elems, loopvar))
                        ELSE NilSlice,
     BccRecipients |-> IF GoLen(msg.Bcc) > 0
                        THEN Slice(createRecipients(msg.Bcc.elems, loopvar))
                        ELSE NilSlice,
     Attachments |-> NilSlice]

\* attachFiles: nothing for an empty list; else one file attachment per
\* element. The name is &att.Filename, a field of the loop variable; the
\* content bytes are passed by value and contentType is declared inside the
\* loop body, so each attachment has its own.
attachFiles(message, attachments, loopvar) ==
    IF GoLen(attachments) = 0 THEN message
    ELSE LET atts == attachments.elems
             names == [i \in 1..Len(atts) |-> atts[i].Filename]
         IN  [message EXCEPT !.Attachments =
                Slice([i \in 1..Len(atts) |->
                    [fileAttachment(atts[i]) EXCEPT
                        !.Name = LoopCellValue(names, loopvar, LoopCell(loopvar, i))]])]

\* The request body outlookProvider.Send posts for user msg.From.
sendMailRequest(msg, loopvar) ==
    [UserId |-> msg.From,
     Message |-> attachFiles(constructMessage(msg, loopvar), msg.Attachments, loopvar),
     SaveToSentItems |-> TRUE]

RunOutlookSend(loopvar) ==
    /\ ~output.done
    /\ output' = [done |-> TRUE, err |-> attachFilesErr(input),
                  request |-> sendMailRequest(input, loopvar), loopvar |-> loopvar]
    /\ UNCHANGED <<input, lastNew, client, calls>>

NextOutlook == \E loopvar \in LoopVars : RunOutlookSend(loopvar)

SpecOutlook == InitEncode /\ [][NextOutlook]_vars

\* both adapters over the same messages
NextProviders == NextEncode \/ NextOutlook

SpecProviders == InitEncode /\ [][NextProviders]_vars

\* the addresses of a recipient list
AddressesOf(recipients) ==
    [i \in 1..Len(recipients.elems) |-> recipients.elems[i].EmailAddress.Address]

\* the content type the HTML flag calls for
ExpectedBodyType(msg) ==
    IF msg.HTML THEN "text/html; charset=utf-8" ELSE "text/plain; charset=utf-8"

\* the Content-Type lines of a sequence of lines
ContentTypeLines(lines) ==
    SelectSeq(lines, LAMBDA l : HasPrefix(l, "Content-Type: "))

C21_WitnessGmail ==
    /\ output.done
    /\ input.HTML
    /\ "text" \in DOMAIN output
    /\ GoLen(input.Attachments) > 0
    /\ Contains(output.text, "Content-Type: text/html; charset=utf-8")

\* C27: the Outlook adapter converts an address list position by position:
\* the Graph message has one recipient per To, Cc and Bcc address, in input
\* order, the i-th recipient carrying the i-th input address; Cc and Bcc
\* recipients are set only when the respective list is not empty.
C27_RecipientsPositionByPosition ==
    output.done =>
        LET message == output.request.Message
        IN  /\ AddressesOf(message.ToRecipients) = input.To.elems
            /\ IF GoLen(input.Cc) > 0
                THEN AddressesOf(message.CcRecipients) = input.Cc.elems
                ELSE message.CcRecipients = NilSlice
            /\ IF GoLen(input.Bcc) > 0
                THEN AddressesOf(message.BccRecipients) = input.Bcc.elems
                ELSE message.BccRecipients = NilSlice

\* the file attachments of a Graph message, as Attachment values
AttachedFiles(message) ==
    [i \in 1..Len(message.Attachments.elems) |->
        [Name |-> message.Attachments.elems[i].Name,
         ContentBytes |-> message.Attachments.elems[i].ContentBytes,
         ContentType |-> message.Attachments.elems[i].ContentType]]

\* C28: the Outlook adapter attaches files position by position: the Graph
\* message of a Message with N attachments carries N file attachments in
\* input order, the i-th with the i-th attachment's filename, content bytes
\* and resolved content type; with no attachments no attachment list is set.
C28_AttachmentsPositionByPosition ==
    output.done =>
        LET message == output.request.Message
        IN  IF GoLen(input.Attachments) = 0
            THEN message.Attachments = NilSlice
            ELSE AttachedFiles(message)
                    = [i \in 1..Len(input.Attachments.elems) |->
                        fileAttachment(input.Attachments.elems[i])]

\* ---------------------------------------------------------------------
\* Multipart messages whose body holds lines that look like delimiters
\* ---------------------------------------------------------------------

\* Bodies of several lines: plain text, a line that starts like a delimiter,
\* and text that quotes the delimiter lines of a message encoded at one of
\* the clock readings.
DelimiterBodies ==
    {"Hello",
     "-- \r\nsignature",
     "--boundary-of-something-else\r\ntext",
     "See below\r\n--boundary-1730588400000000000\r\nquoted part",
     "The end\r\n--boundary-1730588400000000000--\r\nP.S."}

DelimiterMessages ==
    {Message("a@x.com", Slice(<<"b@y.com">>), NilSlice, NilSlice, "Hi", body, h, a) :
        body \in DelimiterBodies, h \in BOOLEAN,
        a \in {l \in EncodeAttachmentLists : GoLen(l) > 0}}

InitDelimiter ==
    /\ input \in DelimiterMessages
    /\ output = NoOutput
    /\ lastNew = NoNewClientCall
    /\ client = NoClient
    /\ calls = [g \in Goroutines |-> IdleCall]

SpecDelimiter == InitDelimiter /\ [][NextEncode]_vars

\* the lines after the empty line that ends the header block
PayloadLines(text) ==
    SubSeq(Lines(text), FirstBlank(Lines(text)) + 1, Len(Lines(text)))

\* C22: in the multipart form with N attachments the top-level Content-Type
\* declares multipart/mixed; boundary=<token>, and the payload after the
\* header block has exactly N+1 opening boundary lines --<token> and exactly
\* one closing boundary line --<token>--, which is the last line of the
\* output, whatever the body and the attachment contents are.
C22_BoundaryLines ==
    output.done /\ GoLen(input.Attachments) > 0 =>
        LET payload == PayloadLines(output.text)
            token == DeclaredBoundary(output.text)
            open == PositionsFrom(payload, "--" \o token, 1)
            close == PositionsFrom(payload, "--" \o token \o "--", 1)
        IN  /\ Len(ContentTypeLines(HeaderLines(output.text))) = 1
            /\ token # ""
            /\ Len(open) = GoLen(input.Attachments) + 1
            /\ Len(close) = 1
            /\ close[1] = Len(payload) - 1
            /\ payload[Len(payload)] = ""

\* ---------------------------------------------------------------------
\* Two encodings in one process
\* ---------------------------------------------------------------------

\* the Messages the two goroutines encode, both with attachments
BoundaryMessages ==
    {Message("a@x.com", Slice(<<"b@y.com">>), NilSlice, NilSlice, "Hi", "Hello", FALSE,
             Slice([i \in 1..n |-> EncodeFile(i)])) : n \in 1..MaxAttachments}

\* no encoding made yet
NotEncoded == ""

InitBoundary ==
    /\ input \in [Goroutines -> BoundaryMessages]
    /\ output = [done |-> FALSE, err |-> NoError, text |-> [g \in Goroutines |-> NotEncoded]]
    /\ lastNew = NoNewClientCall
    /\ client = NoClient
    /\ calls = [g \in Goroutines |-> IdleCall]

\* Goroutine g encodes its Message; `now` is what time.Now().UnixNano() gives
\* it. The clock is read once per encoding and nothing else is shared, so
\* two encodings, one after the other or at the same time, differ only in
\* the readings they take; readings repeat when both fall into one tick of
\* the clock.
EncodeIn(g, order, now) ==
    /\ output.text[g] = NotEncoded
    /\ LET text == [output.text EXCEPT ![g] = messageString(input[g], order, now)]
       IN  output' = [done |-> \A h \in Goroutines : text[h] # NotEncoded,
                      err |-> createMessage(input[g], order, now).err,
                      text |-> text]
    /\ UNCHANGED <<input, lastNew, client, calls>>

NextBoundary ==
    \E g \in Goroutines :
        /\ output.text[g] = NotEncoded
        /\ \E order \in RangeOrders(headersOf(input[g], "")), now \in UnixNanoReadings :
                EncodeIn(g, order, now)

SpecBoundary == InitBoundary /\ [][NextBoundary]_vars

\* C23: the boundary token is unique per message within one process: any two
\* multipart encodings made in the same process, one after the other or at
\* the same time in different goroutines, use different boundary tokens.
C23_BoundaryUnique ==
    \A g, h \in Goroutines :
        g # h /\ output.text[g] # NotEncoded /\ output.text[h] # NotEncoded =>
            DeclaredBoundary(output.text[g]) # DeclaredBoundary(output.text[h])

\* s is a sequence of lines each ended by CRLF: it ends with CRLF and has no
\* CR or LF outside the CRLF pairs
WellTerminated(s) ==
    LET lines == Lines(s)
    IN  /\ lines[Len(lines)] = ""
        /\ \A i \in 1..Len(lines) : ~Contains(lines[i], "\n") /\ ~Contains(lines[i], "\r")

\* C24 as stated: the line terminator throughout the encoded payload is CRLF;
\* every line ends with CRLF, no line is ended by a bare LF and the final
\* line is terminated.
C24_CRLFThroughout ==
    output.done => WellTerminated(output.text)

\* C24, amended: every line the encoder writes itself (header lines, the
\* blank separator, boundary lines, part headers, base64 lines) ends with
\* CRLF; the body is copied as given, so the text is lines ended by CRLF,
\* then the body, then nothing more in the single-part form and lines ended
\* by CRLF in the multipart form.
C24_EncoderLinesEndWithCRLF ==
    output.done =>
        LET text == output.text
            body == input.Body
        IN  \E p \in 1..(Len(text) - Len(body) + 1) :
                /\ SubSeq(text, p, p + Len(body) - 1) = body
                /\ WellTerminated(SubSeq(text, 1, p - 1))
                /\ LET rest == SubSeq(text, p + Len(body), Len(text))
                   IN  IF GoLen(input.Attachments) = 0 THEN rest = ""
                       ELSE WellTerminated(rest)

C24_Witness ==
    /\ output.done
    /\ GoLen(input.Attachments) = 0
    /\ input.Body = "Hello"
    /\ HasSuffix(output.text, CRLF \o CRLF \o "Hello")

\* ---------------------------------------------------------------------
\* Reading the raw message back
\* ---------------------------------------------------------------------

URLIndex == [ch \in CharsOf(URLAlphabet) |-> IndexIn(URLAlphabet, ch) - 1]

\* string(b) for one byte
CharOf(b) ==
    IF b = 13 THEN "\r" ELSE IF b = 10 THEN "\n" ELSE IF b = 9 THEN "\t"
    ELSE IF b <= 95 THEN CharAt(PrintableLow, b - 31)
    ELSE CharAt(PrintableHigh, b - 96)

\* the text of the up to three bytes that the four characters s[i-1:i+3] of a
\* padded URL-safe base64 text stand for
URLDecodeGroup(s, i) ==
    LET six(k) == IF CharAt(s, i + k) = "=" THEN 0 ELSE URLIndex[CharAt(s, i + k)]
        val == six(0) * 262144 + six(1) * 4096 + six(2) * 64 + six(3)
        n == IF CharAt(s, i + 2) = "=" THEN 1 ELSE IF CharAt(s, i + 3) = "=" THEN 2 ELSE 3
    IN  CharOf(val \div 65536)
            \o (IF n >= 2 THEN CharOf((val \div 256) % 256) ELSE "")
            \o (IF n >= 3 THEN CharOf(val % 256) ELSE "")

RECURSIVE URLDecodeGroups(_, _, _)
URLDecodeGroups(s, first, last) ==
    IF first > last THEN ""
    ELSE IF first = last THEN URLDecodeGroup(s, 4 * first - 3)
    ELSE LET mid == (first + last) \div 2
         IN  URLDecodeGroups(s, first, mid) \o URLDecodeGroups(s, mid + 1, last)

\* string(base64.URLEncoding.DecodeString(s)); nothing decodes when s is not
\* padded URL-safe base64
IsURLBase64(s) ==
    /\ Len(s) % 4 = 0
    /\ \A i \in 1..Len(s) :
        \/ CharAt(s, i) \in DOMAIN URLIndex
        \/ CharAt(s, i) = "=" /\ i >= Len(s) - 1 /\ (i = Len(s) \/ CharAt(s, Len(s)) = "=")

NotDecoded == [ok |-> FALSE, text |-> ""]

URLDecodeString(s) ==
    IF IsURLBase64(s) THEN [ok |-> TRUE, text |-> URLDecodeGroups(s, 1, Len(s) \div 4)]
    ELSE NotDecoded

\* C25: the Gmail transport frames the whole encoded payload once with
\* URL-safe base64: building the raw message of a valid Message never fails,
\* and decoding the Raw field once gives back the complete payload the
\* encoder produced, byte for byte, with and without attachments.
C25_RawDecodesToPayload ==
    output.done =>
        /\ output.err = NoError
        /\ URLDecodeString(output.Raw) = [ok |-> TRUE, text |-> output.text]

C25_Witness ==
    /\ output.done
    /\ GoLen(input.Attachments) = MaxAttachments
    /\ output.err = NoError
    /\ URLDecodeString(output.Raw).ok
    /\ HasSuffix(URLDecodeString(output.Raw).text, "--" \o CRLF)
    /\ Contains(output.Raw, "_")

\* ---------------------------------------------------------------------
\* Messages whose header fields hold line terminators
\* ---------------------------------------------------------------------

\* Valid Messages: Validate looks only at whether From, To and Subject are
\* empty, so a field value may hold CR and LF.
InjectMessages ==
    {Message(from, Slice(<<to>>), NilSlice, NilSlice, subject, "Hello", FALSE, a) :
        from \in {"a@x.com", "a@x.com\r\nX-Priority: 1"},
        to \in {"b@y.com", "b@y.com\r\nCc: evil@x.com"},
        subject \in {"Hi", "Hi\r\nBcc: evil@x.com", "Hi\r\n\r\nFake body"},
        a \in {NilSlice, Slice(<<EncodeFile(1)>>)}}

InitInject ==
    /\ input \in InjectMessages
    /\ output = NoOutput
    /\ lastNew = NoNewClientCall
    /\ client = NoClient
    /\ calls = [g \in Goroutines |-> IdleCall]

SpecInject == InitInject /\ [][NextEncode]_vars

\* the header fields a Message calls for
ExpectedFields(msg) ==
    {"From", "To", "Subject", "MIME-Version", "Content-Type"}
        \cup (IF GoLen(msg.Cc) > 0 THEN {"Cc"} ELSE {})
        \cup (IF GoLen(msg.Bcc) > 0 THEN {"Bcc"} ELSE {})

\* C26: for every valid Message the header block of the encoded payload (the
\* lines before the first blank line) has exactly one line each for From, To,
\* Subject, MIME-Version and Content-Type, one for Cc and one for Bcc when
\* they are not empty, and nothing else: no field value supplied by the
\* caller adds a header line or ends the header block early.
C26_HeaderBlockClosed ==
    output.done /\ Validate(input) = NoError =>
        LET head == HeaderLines(output.text)
        IN  /\ Len(head) = Cardinality(ExpectedFields(input))
            /\ \A name \in ExpectedFields(input) :
                    Cardinality({i \in 1..Len(head) : HasPrefix(head[i], name \o ": ")}) = 1

\* ---------------------------------------------------------------------
\* The caller's Message across validation, sending and encoding
\* ---------------------------------------------------------------------

\* The Message is handed on as a pointer (*Message), so every function below
\* could assign to its fields. Each operator gives the Message as the
\* function leaves it.

\* Validate reads From, To and Subject and assigns to nothing.
ValidateWrites(m) == m

createMessageJoinsTo(m) == [m EXCEPT !.To = Slice(<<Join(m.To.elems, ", ")>>)]

\* createMessage reads the fields into its own map and strings.Builder;
\* addAttachment gets each Attachment by value and only reads Content.
createMessageWrites(m) == m

\* constructMessage and attachFiles hand &msg.Subject, &msg.Body and the
\* Content slices to the Graph objects, which are only read to write the
\* request; neither assigns to the Message.
outlookSendWrites(m) == m

\* the mock of the package tests appends a copy of the Message to its calls
\* and assigns to nothing of the Message
mockSendWrites(m) == m

ProviderWrites(kind, m) ==
    CASE kind = "gmail" -> createMessageWrites(m)
      [] kind = "outlook365" -> outlookSendWrites(m)
      [] OTHER -> mockSendWrites(m)

\* the most validation and send steps made on one Message
MaxOps == 3

FrameMessages ==
    {Message(f, to, cc, NilSlice, "Hi", "Hello", h, a) :
        f \in {"", "a@x.com"},
        to \in {NilSlice, Slice(<<"b@y.com", "c@z.com">>)},
        cc \in {NilSlice, Slice(<<"cc1@x.com">>)},
        h \in BOOLEAN,
        a \in {NilSlice, Slice(<<EncodeFile(1), EncodeFile(2)>>)}}

\* input.given is the caller's copy of the Message taken before the first
\* step, input.msg the Message itself; output.received holds the Message
\* each provider call was given.
InitFrame ==
    /\ \E m \in FrameMessages : input = [given |-> m, msg |-> m]
    /\ output = [done |-> FALSE, err |-> NoError, received |-> <<>>, ops |-> 0, api |-> "none"]
    /\ lastNew = NoNewClientCall
    /\ client = NoClient
    /\ calls = [g \in Goroutines |-> IdleCall]

\* err := msg.Validate()
FrameValidate ==
    /\ output.ops < MaxOps
    /\ input' = [input EXCEPT !.msg = ValidateWrites(@)]
    /\ output' = [output EXCEPT !.done = TRUE, !.err = Validate(input.msg),
                                !.ops = @ + 1, !.api = "Validate"]
    /\ UNCHANGED <<lastNew, client, calls>>

\* err := client.Send(msg) or client.SendWithContext(ctx, msg) on a client
\* bound to a provider of the given kind, whose network call answers `answer`
FrameSend(api, kind, answer) ==
    /\ output.ops < MaxOps
    /\ LET validated == ValidateWrites(input.msg)
       IN  IF Validate(input.msg) # NoError
           THEN /\ input' = [input EXCEPT !.msg = validated]
                /\ output' = [output EXCEPT !.done = TRUE, !.err = Validate(input.msg),
                                            !.ops = @ + 1, !.api = api]
           ELSE /\ input' = [input EXCEPT !.msg = ProviderWrites(kind, validated)]
                /\ output' = [output EXCEPT !.done = TRUE,
                                            !.err = ProviderSend(kind, validated, answer),
                                            !.received = Append(@, validated),
                                            !.ops = @ + 1, !.api = api]
    /\ UNCHANGED <<lastNew, client, calls>>

NextFrame ==
    \/ FrameValidate
    \/ \E api \in {"Send", "SendWithContext"}, kind \in {"gmail", "outlook365", "mock"},
          answer \in {NoError, Errorf("provider error")} : FrameSend(api, kind, answer)

SpecFrame == InitFrame /\ [][NextFrame]_vars

Version == "v1.0.2"

VersionMajor == 1

VersionMinor == 0

VersionPatch == 1

VersionPreRelease == ""

BuildDate == ""

GitCommit == ""

\* func GetVersion() string
GetVersion ==
    IF VersionPreRelease # "" THEN Version \o "-" \o VersionPreRelease ELSE Version

\* func GetVersionInfo() VersionInfo
GetVersionInfo ==
    [Version |-> GetVersion, Major |-> VersionMajor, Minor |-> VersionMinor,
     Patch |-> VersionPatch, PreRelease |-> VersionPreRelease,
     BuildDate |-> BuildDate, GitCommit |-> GitCommit]

\* the most calls of the two accessors in one run
MaxVersionCalls == 6

InitVersion ==
    /\ input = <<>>
    /\ output = [done |-> FALSE, err |-> NoError, results |-> <<>>]
    /\ lastNew = NoNewClientCall
    /\ client = NoClient
    /\ calls = [g \in Goroutines |-> IdleCall]

\* version := GetVersion()
CallGetVersion ==
    /\ Len(output.results) < MaxVersionCalls
    /\ output' = [output EXCEPT !.done = TRUE,
                    !.results = Append(@, [fn |-> "GetVersion", value |-> GetVersion])]
    /\ UNCHANGED <<input, lastNew, client, calls>>

\* info := GetVersionInfo()
CallGetVersionInfo ==
    /\ Len(output.results) < MaxVersionCalls
    /\ output' = [output EXCEPT !.done = TRUE,
                    !.results = Append(@, [fn |-> "GetVersionInfo", value |-> GetVersionInfo])]
    /\ UNCHANGED <<input, lastNew, client, calls>>

NextVersion == CallGetVersion \/ CallGetVersionInfo

SpecVersion == InitVersion /\ [][NextVersion]_vars

\* the version string of three numbers
VersionString(major, minor, patch) ==
    "v" \o ToString(major) \o "." \o ToString(minor) \o "." \o ToString(patch)

\* C30: the version metadata is consistent: GetVersion returns the Version
\* constant, followed by "-" and the pre-release identifier when one is set;
\* GetVersionInfo reports that same string with VersionMajor, VersionMinor and
\* VersionPatch; and the version string equals v<Major>.<Minor>.<Patch> of
\* those numbers.
C30_VersionConsistent ==
    \A i \in 1..Len(output.results) :
        LET r == output.results[i]
            expected == IF VersionPreRelease = "" THEN Version
                        ELSE Version \o "-" \o VersionPreRelease
        IN  IF r.fn = "GetVersion"
            THEN /\ r.value = expected
                 /\ HasPrefix(r.value, VersionString(VersionMajor, VersionMinor, VersionPatch))
            ELSE /\ r.value.Version = expected
                 /\ r.value.Major = VersionMajor
                 /\ r.value.Minor = VersionMinor
                 /\ r.value.Patch = VersionPatch
                 /\ HasPrefix(r.value.Version,
                              VersionString(r.value.Major, r.value.Minor, r.value.Patch))

====
